---- MODULE Spec2Model ----
(***************************************************************************)
(* Model of dynamo-mapper: DynamoMapper (src/lib/mapper/index.ts) over a   *)
(* DynamoDB table.  Callers ("writers") hold entity objects in memory and  *)
(* call getItem / putItem / updateItem / deleteItem / transactPut; every   *)
(* call is split at its store round trip: the call builds and sends the    *)
(* request, the store evaluates it atomically, the call's continuation     *)
(* handles the response.                                                   *)
(***************************************************************************)
EXTENDS Integers, Sequences, FiniteSets, TLC

VARIABLES
    store,         \* the table: entity id -> stored item, or NoItem
    entityConfig,  \* the entity's registered configuration (table, encryptedFields)
    items,         \* writer -> the entity objects the writer holds in memory (a sequence)
    pc,            \* writer -> "idle" | "sent" (request in flight) | "answered"
    req,           \* writer -> the call in progress and its store request, or NoReq
    resp,          \* writer -> the store's response to it, or NoResp
    result,        \* writer -> outcome of the writer's last finished call, or NoResult
    writes,        \* entity id -> successful writes of the item since it was absent
    cachedClient,  \* DynamoMapper._cachedClient: the store client of the process, or NoClient
    mappers,       \* the DynamoMapper instances constructed so far, in order
    created        \* number of store clients created so far in the process

vars == <<store, entityConfig, items, pc, req, resp, result, writes, cachedClient, mappers,
          created>>

\* The static state of the process and the instances built on it.
process == <<cachedClient, mappers, created>>

----------------------------------------------------------------------------
\* Bounds of the model.

\* versionNumber values explored: calls are issued only below this version.
MaxVersion == 3

\* Successful writes counted per item: calls are issued only below this count.
MaxWrites == 3

\* The callers: one in the general model, two in the race on one item.
Writers == {"w1"}
Racers == {"w1", "w2"}

\* Items of the transactPut model: the caller passes up to this many.
MaxItems == 102

\* Entity ids (partition key values) the single-item callers work on.
Ids == {"a"}

\* Values of the plain attribute `status`.
Status == {"ACTIVE", "DONE"}

\* Values of the sensitive attribute `secret`: "" is a falsy JS value, "s" a truthy
\* string, "Set(x)" a Set (a value the store holds natively).
SecretVals == {"", "s", "Set(x)"}

----------------------------------------------------------------------------
\* Attribute maps: an item is a function from the attribute names it carries to
\* their values; an attribute that is undefined in JS is not in the domain.

NoItem == [absent |-> TRUE]
NoReq == [call |-> "none", op |-> "none"]
NoResp == [kind |-> "none"]
NoResult == [outcome |-> [kind |-> "none"], req |-> NoReq, resp |-> NoResp]

Has(item, a) == a \in DOMAIN item

SetAttr(item, a, v) == [x \in (DOMAIN item) \cup {a} |-> IF x = a THEN v ELSE item[x]]

DelAttr(item, a) == [x \in (DOMAIN item) \ {a} |-> item[x]]

\* The falsy values an attribute of the model can hold: the empty string, and the
\* values 0, false and null written as strings (attribute values other than
\* versionNumber are strings in this model).
FalsyVals == {"", "0", "false", "null"}

\* JS truthiness of a (string-valued) attribute: present and not a falsy value.
Truthy(item, a) == Has(item, a) /\ item[a] \notin FalsyVals

----------------------------------------------------------------------------
\* The modelled entity class: table "t" with partition key attribute "pk" and no
\* sort key; keyGenerator derives the key from the business attribute `id`.

Table == [tableName |-> "t", pkName |-> "pk"]

\* entity(config): the configurations an entity class can be registered with.
EntityConfigs ==
    { [table |-> Table, encryptedFields |-> <<>>],
      [table |-> Table, encryptedFields |-> <<"secret">>] }

keyGenerator(item) == [partitionKey |-> item.id]

buildKey(table, primaryKey) ==
    LET key == [x \in {table.pkName} |-> primaryKey.partitionKey]
    IN  IF Has(table, "skName") /\ Has(primaryKey, "sortKey")
        THEN SetAttr(key, table.skName, primaryKey.sortKey)
        ELSE key

\* Object.assign(target, source)
ObjectAssign(target, source) ==
    [x \in (DOMAIN target) \cup (DOMAIN source) |->
        IF x \in DOMAIN source THEN source[x] ELSE target[x]]

\* new entityClass(attributes): the entity carries the attributes it is built from.
NewEntity(attributes) == attributes

----------------------------------------------------------------------------
\* Field transform: JSON texts, and the crypto provider as tagged values so that
\* encode and decode are distinct from the identity.

\* Values that are strings; the other values are written as their JS notation:
\* 0, false, null, {} and the Set "Set(x)", which JSON has no notation for.
StringVals == {"", "s"}
JsonVals == StringVals \cup {"0", "false", "null", "{}"}

\* JSON.stringify(v): a string in quotes, a Set as the object without properties.
Stringify(v) ==
    IF v \in StringVals THEN "\"" \o v \o "\""
    ELSE IF v \in JsonVals THEN v
    ELSE "{}"

\* JSON.parse(text): the value the text is the notation of.
Parse(text) == CHOOSE v \in JsonVals : Stringify(v) = text

Encrypt(plainText) == <<"base64", plainText>>
Decrypt(cipherText) == cipherText[2]

EncryptedKey(field) == CASE field = "secret" -> "encrypted_secret"

encryptField(item, field) ==
    IF ~Truthy(item, field)
    THEN item
    ELSE DelAttr(SetAttr(item, EncryptedKey(field), Encrypt(Stringify(item[field]))), field)

RECURSIVE EncryptFields(_, _)
EncryptFields(item, fields) ==
    IF fields = <<>> THEN item
    ELSE EncryptFields(encryptField(item, Head(fields)), Tail(fields))

\* encryptItem works on a shallow copy; the value it returns is the transformed copy.
encryptItem(item, encryptedFields) ==
    IF Len(encryptedFields) = 0 THEN item ELSE EncryptFields(item, encryptedFields)

\* The object handed to encryptItem with the fields transformed on the object itself.
CallerObject_InPlace(item, encryptedFields) == encryptItem(item, encryptedFields)

\* The object handed to encryptItem once encryptItem has run: encryptField sets and
\* deletes properties of the copy `{ ...item }`, never of the object itself.
CallerObject(item, encryptedFields) == item

\* crypto.encrypt is invoked (and so can fail) only for a truthy sensitive field.
EncryptInvoked(item, encryptedFields) ==
    \E i \in 1..Len(encryptedFields) : Truthy(item, encryptedFields[i])

decryptField(item, field) ==
    IF ~Has(item, EncryptedKey(field))
    THEN item
    ELSE DelAttr(SetAttr(item, field, Parse(Decrypt(item[EncryptedKey(field)]))),
                 EncryptedKey(field))

RECURSIVE DecryptFields(_, _)
DecryptFields(item, fields) ==
    IF fields = <<>> THEN item
    ELSE DecryptFields(decryptField(item, Head(fields)), Tail(fields))

decryptItem(item, encryptedFields) ==
    IF Len(encryptedFields) = 0 THEN item ELSE DecryptFields(item, encryptedFields)

DecryptInvoked(item, encryptedFields) ==
    \E i \in 1..Len(encryptedFields) : Has(item, EncryptedKey(encryptedFields[i]))

----------------------------------------------------------------------------
\* buildPutItemInput

\* item.versionNumber || 0
CurrentVersion(item) ==
    IF Has(item, "versionNumber") /\ item.versionNumber # 0 THEN item.versionNumber ELSE 0

\* The in-place part of buildPutItemInput: the key attributes are assigned to the
\* caller's object and its versionNumber is advanced, before anything is awaited.
AssignKeyAndVersion(item, config) ==
    SetAttr(ObjectAssign(item, buildKey(config.table, keyGenerator(item))),
            "versionNumber", CurrentVersion(item) + 1)

VersionCondition == "versionNumber = :currentVersion OR attribute_not_exists(versionNumber)"

\* buildPutItemInput with the version condition attached whatever the options say.
buildPutItemInput_AlwaysChecked(item, skipVersionCheck, config) ==
    [TableName |-> config.table.tableName,
     Item |-> encryptItem(AssignKeyAndVersion(item, config), config.encryptedFields),
     ReturnValues |-> "NONE",
     ConditionExpression |-> VersionCondition,
     ExpressionAttributeValues |-> [currentVersion |-> CurrentVersion(item)]]

\* buildPutItemInput with the version condition never attached.
buildPutItemInput_NeverChecked(item, skipVersionCheck, config) ==
    [TableName |-> config.table.tableName,
     Item |-> encryptItem(AssignKeyAndVersion(item, config), config.encryptedFields),
     ReturnValues |-> "NONE"]

\* The PutCommandInput built for `item` (the object as the caller passed it).
buildPutItemInput(item, skipVersionCheck, config) ==
    LET input == [TableName |-> config.table.tableName,
                  Item |-> encryptItem(AssignKeyAndVersion(item, config), config.encryptedFields),
                  ReturnValues |-> "NONE"]
    IN  IF skipVersionCheck
        THEN input
        ELSE [TableName |-> input.TableName, Item |-> input.Item,
              ReturnValues |-> input.ReturnValues,
              ConditionExpression |-> VersionCondition,
              ExpressionAttributeValues |-> [currentVersion |-> CurrentVersion(item)]]

----------------------------------------------------------------------------
\* Outcomes of a call: a return value or a thrown error. Errors are records, so
\* that "the same error" is equality of records.

Ok == [kind |-> "ok"]
Undefined == [kind |-> "undefined"]
VersionMismatchError == [kind |-> "error", name |-> "VersionMismatchError"]
NotFoundError == [kind |-> "error", name |-> "NotFoundError"]
ItemCountError ==
    [kind |-> "error", name |-> "Error", message |-> "Number of items must be between 1 and 100."]

\* Rejections of the crypto provider.
EncryptError == [kind |-> "error", name |-> "EncryptError"]
DecryptError == [kind |-> "error", name |-> "DecryptError"]

\* Errors of the store.
ConditionalCheckFailedException == [kind |-> "error", name |-> "ConditionalCheckFailedException"]
ValidationException == [kind |-> "error", name |-> "ValidationException"]
TransactionCanceledException(reasons) ==
    [kind |-> "error", name |-> "TransactionCanceledException", CancellationReasons |-> reasons]

\* Errors of the store that have nothing to do with the request's conditions.
OtherStoreErrors == {[kind |-> "error", name |-> "InternalServerError"]}

\* The catch block of putItem with every error taken for a failed condition.
putItemCatch_AlwaysMismatch(error) == VersionMismatchError

\* catch block of putItem
putItemCatch(error) ==
    IF error.name = "ConditionalCheckFailedException" THEN VersionMismatchError ELSE error

\* The catch block of updateItem without the ValidationException case.
updateItemCatch_Rethrow(error) == error

\* catch block of updateItem
updateItemCatch(error) ==
    IF error.name = "ValidationException" THEN NotFoundError ELSE error

\* The catch block of deleteItem without the ConditionalCheckFailedException case.
deleteItemCatch_Rethrow(error) == error

\* catch block of deleteItem: a failed conditional check returns undefined.
deleteItemCatch(error) ==
    IF error.name = "ConditionalCheckFailedException" THEN Undefined ELSE error

\* The catch block of transactPut without the look at the cancellation reasons.
transactPutCatch_AnyCancellation(error) ==
    IF error.name = "TransactionCanceledException" THEN VersionMismatchError ELSE error

\* The catch block of transactPut looking for the error name putItem looks for.
transactPutCatch_AsPut(error) ==
    IF error.name = "ConditionalCheckFailedException" THEN VersionMismatchError ELSE error

\* catch block of transactPut
transactPutCatch(error) ==
    IF /\ error.name = "TransactionCanceledException"
       /\ Has(error, "CancellationReasons")
       /\ \E i \in 1..Len(error.CancellationReasons) :
            error.CancellationReasons[i].Code = "ConditionalCheckFailed"
    THEN VersionMismatchError
    ELSE error

----------------------------------------------------------------------------
\* The store (DynamoDB), at the interface the mapper uses.

\* The table key of a stored or to-be-stored item.
KeyOf(item) == item[Table.pkName]

StoredVersion(id) == IF Has(store[id], "versionNumber") THEN store[id].versionNumber ELSE 0

\* A store that accepts every put.
PutConditionHolds_Always(stored, input) == TRUE

\* The condition with :currentVersion bound to the version after the increment.
PutConditionHolds_Incremented(stored, input) ==
    IF ~Has(input, "ConditionExpression") THEN TRUE
    ELSE IF ~Has(stored, "versionNumber") THEN TRUE
    ELSE stored.versionNumber = input.Item.versionNumber

\* ConditionExpression 'versionNumber = :currentVersion OR attribute_not_exists(versionNumber)'
\* evaluated against the stored item; a request without a condition always passes.
PutConditionHolds(stored, input) ==
    IF ~Has(input, "ConditionExpression") THEN TRUE
    ELSE IF ~Has(stored, "versionNumber") THEN TRUE
    ELSE stored.versionNumber = input.ExpressionAttributeValues.currentVersion

\* The response to a request of a writer, with the table before and after it.
Response(answer, pre, post) == [answer |-> answer, pre |-> pre, post |-> post]

\* The store answers the request of w and (maybe) changes the table.
StoreAnswers(w, answer, newStore) ==
    /\ resp' = [resp EXCEPT ![w] = Response(answer, store, newStore)]
    /\ store' = newStore
    /\ pc' = [pc EXCEPT ![w] = "answered"]

\* The store fails the request of w for a reason of its own; the table stays as it is.
StoreFails(w) ==
    \E e \in OtherStoreErrors :
        /\ StoreAnswers(w, e, store)
        /\ UNCHANGED writes

\* The call of w is over: the writer is idle again; the outcome is recorded with
\* the request and the response it came from.
Finish(w, outcome) ==
    /\ result' = [result EXCEPT ![w] = [outcome |-> outcome, req |-> req[w], resp |-> resp[w]]]
    /\ pc' = [pc EXCEPT ![w] = "idle"]
    /\ req' = [req EXCEPT ![w] = NoReq]
    /\ resp' = [resp EXCEPT ![w] = NoResp]

\* The call of w ends before any request is sent.
FailEarly(w, call, outcome) ==
    /\ result' = [result EXCEPT ![w] =
            [outcome |-> outcome, req |-> [call |-> call, op |-> "none"], resp |-> NoResp]]
    /\ UNCHANGED <<pc, req, resp>>

\* The call of w ends before any request is sent; `call` records the call and what
\* was thrown inside it.
Reject(w, call, outcome) ==
    /\ result' = [result EXCEPT ![w] =
            [outcome |-> outcome,
             req |-> [x \in DOMAIN call \cup {"op"} |-> IF x = "op" THEN "none" ELSE call[x]],
             resp |-> NoResp]]
    /\ UNCHANGED <<pc, req, resp>>

\* The call of w sends its request and awaits the response.
Send(w, request) ==
    /\ req' = [req EXCEPT ![w] = request]
    /\ pc' = [pc EXCEPT ![w] = "sent"]
    /\ result' = [result EXCEPT ![w] = NoResult]
    /\ UNCHANGED resp

----------------------------------------------------------------------------
\* The caller constructs a fresh entity: no versionNumber, no key attributes yet.
NewItem(w) ==
    /\ pc[w] = "idle"
    /\ \E i \in Ids, s \in Status :
        \/ items' = [items EXCEPT ![w] = <<NewEntity([id |-> i, status |-> s])>>]
        \/ \E v \in SecretVals :
            items' = [items EXCEPT ![w] = <<NewEntity([id |-> i, status |-> s, secret |-> v])>>]
    /\ UNCHANGED <<store, entityConfig, process, pc, req, resp, result, writes>>

----------------------------------------------------------------------------
\* putItem(item, options)

\* Up to client.put: buildPutItemInput assigns key and version to the caller's object
\* and encrypts a copy; when crypto.encrypt rejects, the catch block rethrows and no
\* request is sent.
PutItem(w, skipVersionCheck) ==
    /\ pc[w] = "idle"
    /\ Len(items[w]) = 1
    /\ CurrentVersion(items[w][1]) < MaxVersion
    /\ writes[items[w][1].id] < MaxWrites
    /\ items' = [items EXCEPT ![w][1] =
            CallerObject(AssignKeyAndVersion(@, entityConfig), entityConfig.encryptedFields)]
    /\ \E encryptOk \in BOOLEAN :
        /\ encryptOk \/ EncryptInvoked(items[w][1], entityConfig.encryptedFields)
        /\ IF encryptOk
           THEN Send(w, [call |-> "putItem", op |-> "put",
                         item |-> items[w][1],
                         options |-> [skipVersionCheck |-> skipVersionCheck],
                         input |-> buildPutItemInput(items[w][1], skipVersionCheck,
                                                     entityConfig)])
           ELSE Reject(w, [call |-> "putItem", item |-> items[w][1], thrown |-> EncryptError],
                       putItemCatch(EncryptError))
    /\ UNCHANGED <<store, entityConfig, process, writes>>

PutItemCall(w) == \E skipVersionCheck \in BOOLEAN : PutItem(w, skipVersionCheck)

\* The store evaluates the put atomically: the item is written when the condition
\* holds, else the request is rejected.
StorePut(w) ==
    /\ pc[w] = "sent"
    /\ req[w].op = "put"
    /\ LET input == req[w].input
           id == KeyOf(input.Item)
       IN  \/ /\ PutConditionHolds(store[id], input)
              /\ StoreAnswers(w, Ok, [store EXCEPT ![id] = input.Item])
              /\ writes' = [writes EXCEPT ![id] = @ + 1]
           \/ /\ ~PutConditionHolds(store[id], input)
              /\ StoreAnswers(w, ConditionalCheckFailedException, store)
              /\ UNCHANGED writes
           \/ StoreFails(w)
    /\ UNCHANGED <<entityConfig, process, items, req, result>>

\* After client.put: return the item, or map the error.
PutItemReturn(w) ==
    /\ pc[w] = "answered"
    /\ req[w].op = "put"
    /\ Finish(w, IF resp[w].answer = Ok THEN Ok ELSE putItemCatch(resp[w].answer))
    /\ UNCHANGED <<store, entityConfig, process, items, writes>>

----------------------------------------------------------------------------
\* getItem(entityClass, primaryKey)

GetItemCall(w) ==
    /\ pc[w] = "idle"
    /\ \E i \in Ids :
        Send(w, [call |-> "getItem", op |-> "get",
                 Key |-> buildKey(entityConfig.table, [partitionKey |-> i])])
    /\ UNCHANGED <<store, entityConfig, process, items, writes>>

StoreGet(w) ==
    /\ pc[w] = "sent"
    /\ req[w].op = "get"
    /\ \/ StoreAnswers(w, [kind |-> "ok", Item |-> store[KeyOf(req[w].Key)]], store)
          /\ UNCHANGED writes
       \/ StoreFails(w)
    /\ UNCHANGED <<entityConfig, process, items, req, result>>

\* The entity built from the attributes the store returned, decrypted: the caller
\* holds it from now on. crypto.decrypt may reject.
ReturnEntity(w, attributes) ==
    \E decryptOk \in BOOLEAN :
        /\ decryptOk \/ DecryptInvoked(attributes, entityConfig.encryptedFields)
        /\ IF decryptOk
           THEN /\ Finish(w, Ok)
                /\ items' = [items EXCEPT ![w] =
                        <<decryptItem(NewEntity(attributes), entityConfig.encryptedFields)>>]
           ELSE /\ Finish(w, DecryptError)
                /\ UNCHANGED items

\* After client.get: undefined when there is no item, else the decrypted entity.
GetItemReturn(w) ==
    /\ pc[w] = "answered"
    /\ req[w].op = "get"
    /\ IF resp[w].answer.kind # "ok"
       THEN Finish(w, resp[w].answer) /\ UNCHANGED items
       ELSE IF resp[w].answer.Item = NoItem
       THEN Finish(w, Undefined) /\ UNCHANGED items
       ELSE ReturnEntity(w, resp[w].answer.Item)
    /\ UNCHANGED <<store, entityConfig, process, writes>>

----------------------------------------------------------------------------
\* updateItem(entityClass, primaryKey, attributes)

\* The partial attribute sets the callers update with.
UpdateAttributes ==
    { [status |-> s] : s \in Status } \cup { [secret |-> v] : v \in SecretVals }

\* UpdateExpression.build, by effect: SET versionNumber = versionNumber + :versionInc
\* with :versionInc = 1, and one SET term per attribute of the partial item.
UpdateExpressionBuild(attributes) == [versionInc |-> 1, set |-> attributes]

\* Up to client.update. encryptItem runs before the try block: its rejection leaves
\* the call as it is.
UpdateItemCall(w) ==
    /\ pc[w] = "idle"
    /\ \E i \in Ids, attributes \in UpdateAttributes, encryptOk \in BOOLEAN :
        /\ StoredVersion(i) < MaxVersion
        /\ writes[i] < MaxWrites
        /\ encryptOk \/ EncryptInvoked(attributes, entityConfig.encryptedFields)
        /\ IF encryptOk
           THEN Send(w, [call |-> "updateItem", op |-> "update",
                         given |-> attributes,
                         attributes |-> CallerObject(attributes, entityConfig.encryptedFields),
                         Key |-> buildKey(entityConfig.table, [partitionKey |-> i]),
                         UpdateExpression |->
                            UpdateExpressionBuild(
                                encryptItem(attributes, entityConfig.encryptedFields)),
                         ReturnValues |-> "ALL_NEW"])
           ELSE Reject(w, [call |-> "updateItem", given |-> attributes,
                           attributes |->
                               CallerObject(attributes, entityConfig.encryptedFields),
                           thrown |-> EncryptError],
                       EncryptError)
    /\ UNCHANGED <<store, entityConfig, process, items, writes>>

\* The stored item after the SET expression is applied to it.
ApplyUpdate(stored, expression) ==
    SetAttr(ObjectAssign(stored, expression.set),
            "versionNumber", stored.versionNumber + expression.versionInc)

\* The store evaluates the update: 'versionNumber + :versionInc' reads an attribute
\* of the stored item, so with no item (or no versionNumber) at the key the request
\* is rejected as invalid and nothing is written.
StoreUpdate(w) ==
    /\ pc[w] = "sent"
    /\ req[w].op = "update"
    /\ LET id == KeyOf(req[w].Key)
           new == ApplyUpdate(store[id], req[w].UpdateExpression)
       IN  \/ /\ Has(store[id], "versionNumber")
              /\ StoreAnswers(w, [kind |-> "ok", Attributes |-> new],
                              [store EXCEPT ![id] = new])
              /\ writes' = [writes EXCEPT ![id] = @ + 1]
           \/ /\ ~Has(store[id], "versionNumber")
              /\ StoreAnswers(w, ValidationException, store)
              /\ UNCHANGED writes
           \/ StoreFails(w)
    /\ UNCHANGED <<entityConfig, process, items, req, result>>

\* After client.update: the decrypted post-image, NotFoundError for a
\* ValidationException, any other error as it is.
UpdateItemReturn(w) ==
    /\ pc[w] = "answered"
    /\ req[w].op = "update"
    /\ IF resp[w].answer.kind # "ok"
       THEN Finish(w, updateItemCatch(resp[w].answer)) /\ UNCHANGED items
       ELSE ReturnEntity(w, resp[w].answer.Attributes)
    /\ UNCHANGED <<store, entityConfig, process, writes>>

----------------------------------------------------------------------------
\* deleteItem(entityClass, primaryKey, conditions)

\* The expected-value conditions the callers delete with; NoConditions is `undefined`.
NoConditions == [none |-> TRUE]
DeleteConditions == {NoConditions} \cup { [status |-> s] : s \in Status }

\* buildDeleteConditions: undefined for no conditions, else { name: { Value: value } }.
buildDeleteConditions(conditions) ==
    IF conditions = NoConditions
    THEN NoConditions
    ELSE [c \in DOMAIN conditions |-> [Value |-> conditions[c]]]

\* Expected: every named attribute exists in the stored item with the given value.
ExpectedHolds(stored, expected) ==
    IF expected = NoConditions THEN TRUE
    ELSE \A c \in DOMAIN expected :
            IF Has(stored, c) THEN stored[c] = expected[c].Value ELSE FALSE

DeleteItemCall(w) ==
    /\ pc[w] = "idle"
    /\ \E i \in Ids, conditions \in DeleteConditions :
        Send(w, [call |-> "deleteItem", op |-> "delete",
                 Key |-> buildKey(entityConfig.table, [partitionKey |-> i]),
                 ReturnValues |-> "ALL_OLD",
                 conditions |-> conditions,
                 Expected |-> buildDeleteConditions(conditions)])
    /\ UNCHANGED <<store, entityConfig, process, items, writes>>

\* The store evaluates the delete: with the expectation met the item (if any) is
\* removed and its old image returned, else the request is rejected.
StoreDelete(w) ==
    /\ pc[w] = "sent"
    /\ req[w].op = "delete"
    /\ LET id == KeyOf(req[w].Key)
       IN  \/ /\ ExpectedHolds(store[id], req[w].Expected)
              /\ StoreAnswers(w, [kind |-> "ok", Attributes |-> store[id]],
                              [store EXCEPT ![id] = NoItem])
              /\ writes' = [writes EXCEPT ![id] = 0]
           \/ /\ ~ExpectedHolds(store[id], req[w].Expected)
              /\ StoreAnswers(w, ConditionalCheckFailedException, store)
              /\ UNCHANGED writes
           \/ StoreFails(w)
    /\ UNCHANGED <<entityConfig, process, items, req, result>>

\* The value deleteItem returns for a prior image.
Returned(entity) == [kind |-> "ok", entity |-> entity]

\* After client.delete: undefined for no prior image and for a failed conditional
\* check, the decrypted prior image otherwise, other errors as they are.
DeleteItemReturn(w) ==
    /\ pc[w] = "answered"
    /\ req[w].op = "delete"
    /\ IF resp[w].answer.kind # "ok"
       THEN Finish(w, deleteItemCatch(resp[w].answer))
       ELSE IF resp[w].answer.Attributes = NoItem
       THEN Finish(w, Undefined)
       ELSE \E decryptOk \in BOOLEAN :
                /\ decryptOk
                    \/ DecryptInvoked(resp[w].answer.Attributes, entityConfig.encryptedFields)
                /\ Finish(w, IF decryptOk
                             THEN Returned(decryptItem(NewEntity(resp[w].answer.Attributes),
                                                       entityConfig.encryptedFields))
                             ELSE deleteItemCatch(DecryptError))
    /\ UNCHANGED <<store, entityConfig, process, items, writes>>

----------------------------------------------------------------------------
\* transactPut(items)

\* The most items one transactPut call accepts.
TransactLimit == 100

\* The length check with the limit itself rejected.
ItemCountRejected_LimitExcluded(n) == n = 0 \/ n >= TransactLimit

\* The length check without the upper limit.
ItemCountRejected_EmptyOnly(n) == n = 0

\* items.length === 0 || items.length > 100
ItemCountRejected(n) == n = 0 \/ n > TransactLimit

\* Up to client.transactWrite. After the length check every item gets its key and
\* version assigned (the synchronous part of each buildPutItemInput), then the copies
\* are encrypted; a rejection of crypto.encrypt reaches the catch block and is rethrown.
TransactPutCall(w) ==
    /\ pc[w] = "idle"
    /\ LET n == Len(items[w])
       IN  IF ItemCountRejected(n)
           THEN /\ FailEarly(w, "transactPut", ItemCountError)
                /\ UNCHANGED items
           ELSE /\ \A i \in 1..n :
                    /\ CurrentVersion(items[w][i]) < MaxVersion
                    /\ writes[items[w][i].id] < MaxWrites
                /\ items' = [items EXCEPT ![w] =
                        [i \in 1..n |->
                            CallerObject(AssignKeyAndVersion(items[w][i], entityConfig),
                                         entityConfig.encryptedFields)]]
                /\ \E encryptOk \in BOOLEAN :
                    /\ IF encryptOk THEN TRUE
                       ELSE \E i \in 1..n :
                            EncryptInvoked(items[w][i], entityConfig.encryptedFields)
                    /\ IF encryptOk
                       THEN Send(w, [call |-> "transactPut", op |-> "transactWrite",
                                     items |-> items[w],
                                     TransactItems |->
                                        [i \in 1..n |->
                                            [Put |-> buildPutItemInput(items[w][i], FALSE,
                                                                       entityConfig)]]])
                       ELSE Reject(w, [call |-> "transactPut", items |-> items[w],
                                       thrown |-> EncryptError],
                                   transactPutCatch(EncryptError))
    /\ UNCHANGED <<store, entityConfig, process, writes>>

\* CancellationReasons of a transaction cancelled for its conditions: one per item.
ConditionReasons(table, transactItems) ==
    [i \in 1..Len(transactItems) |->
        [Code |-> IF PutConditionHolds(table[KeyOf(transactItems[i].Put.Item)],
                                       transactItems[i].Put)
                  THEN "None" ELSE "ConditionalCheckFailed"]]

\* CancellationReasons of a transaction cancelled for another reason.
OtherReasons(transactItems) ==
    [i \in 1..Len(transactItems) |->
        [Code |-> IF i = 1 THEN "TransactionConflict" ELSE "None"]]

\* The table after all the puts of a transaction (its items have distinct keys).
ApplyPuts(table, transactItems) ==
    [id \in DOMAIN table |->
        IF \E i \in 1..Len(transactItems) : KeyOf(transactItems[i].Put.Item) = id
        THEN transactItems[CHOOSE i \in 1..Len(transactItems) :
                                KeyOf(transactItems[i].Put.Item) = id].Put.Item
        ELSE table[id]]

\* The write counts after a transaction is applied.
CountPuts(counts, transactItems) ==
    [id \in DOMAIN counts |->
        IF \E i \in 1..Len(transactItems) : KeyOf(transactItems[i].Put.Item) = id
        THEN counts[id] + 1 ELSE counts[id]]

\* The store evaluates the transaction atomically: every put is written when every
\* condition holds; else the transaction is cancelled and nothing is written. The
\* store may also cancel it for a reason of its own.
StoreTransactWrite(w) ==
    /\ pc[w] = "sent"
    /\ req[w].op = "transactWrite"
    /\ LET transactItems == req[w].TransactItems
           reasons == ConditionReasons(store, transactItems)
           allHold == \A i \in 1..Len(reasons) : reasons[i].Code = "None"
       IN  \/ /\ allHold
              /\ StoreAnswers(w, Ok, ApplyPuts(store, transactItems))
              /\ writes' = CountPuts(writes, transactItems)
           \/ /\ ~allHold
              /\ StoreAnswers(w, TransactionCanceledException(reasons), store)
              /\ UNCHANGED writes
           \/ /\ StoreAnswers(w, TransactionCanceledException(OtherReasons(transactItems)),
                              store)
              /\ UNCHANGED writes
           \/ StoreFails(w)
    /\ UNCHANGED <<entityConfig, process, items, req, result>>

\* After client.transactWrite: return the items, or map the error.
TransactPutReturn(w) ==
    /\ pc[w] = "answered"
    /\ req[w].op = "transactWrite"
    /\ Finish(w, IF resp[w].answer = Ok THEN Ok ELSE transactPutCatch(resp[w].answer))
    /\ UNCHANGED <<store, entityConfig, process, items, writes>>

----------------------------------------------------------------------------
\* Expressions: the text of a condition with the aliases it uses. `clauses` is what
\* the text says, clause by clause, as the store reads it: the name alias, the
\* operator and the value aliases of each comparison.

nameAlias(param) == "#" \o param
valueAlias(param) == ":" \o param
fromValueAlias(param) == ":" \o param \o "From"
toValueAlias(param) == ":" \o param \o "To"

\* enum Operator
Operator ==
    [EQ |-> "=", LE |-> "<=", LT |-> "<", GE |-> ">=", GT |-> ">",
     BeginsWith |-> "begins_with", Between |-> "between", Exists |-> "attribute_exists"]

\* A value that is `undefined` in JS: a missing property, an array index out of range.
UndefinedValue == "undefined"

\* An object without properties ({}).
EmptyMap == <<>>

\* { ...a, ...b }: the properties of b win.
Spread(a, b) == [k \in (DOMAIN a) \cup (DOMAIN b) |-> IF k \in DOMAIN b THEN b[k] ELSE a[k]]

\* object[key] = value
Assign(object, key, value) == Spread(object, key :> value)

\* array[i] of a JS array, 0-based: undefined out of range.
At(array, i) == IF i + 1 \in DOMAIN array THEN array[i + 1] ELSE UndefinedValue

\* strings.join(separator)
RECURSIVE Join(_, _)
Join(strings, separator) ==
    IF strings = <<>> THEN ""
    ELSE IF Len(strings) = 1 THEN strings[1]
    ELSE strings[1] \o separator \o Join(Tail(strings), separator)

\* An Error thrown by a builder.
UsageError(message) == [kind |-> "error", name |-> "Error", message |-> message]
TypeError == [kind |-> "error", name |-> "TypeError"]
IsError(x) == IF Has(x, "kind") THEN x.kind = "error" ELSE FALSE

\* What a clause of a text says.
Clause(operator, attributeName) ==
    [name |-> nameAlias(attributeName),
     operator |-> operator,
     values |-> IF operator = Operator.Between
                THEN <<fromValueAlias(attributeName), toValueAlias(attributeName)>>
                ELSE IF operator = Operator.Exists THEN <<>>
                ELSE <<valueAlias(attributeName)>>]

\* ExpressionText.for
ExpressionTextFor(operator, attributeName) ==
    IF operator = Operator.Between
    THEN nameAlias(attributeName) \o " " \o Operator.Between \o " "
            \o fromValueAlias(attributeName) \o " and " \o toValueAlias(attributeName)
    ELSE IF operator = Operator.BeginsWith
    THEN Operator.BeginsWith \o "(" \o nameAlias(attributeName) \o ", "
            \o valueAlias(attributeName) \o ")"
    ELSE IF operator = Operator.Exists
    THEN Operator.Exists \o "(" \o nameAlias(attributeName) \o ")"
    ELSE nameAlias(attributeName) \o " " \o operator \o " " \o valueAlias(attributeName)

----------------------------------------------------------------------------
\* getKeyConfig and KeyConditionBuilder

\* getKeyConfig with any index name taken for the table.
getKeyConfig_NoIndexCheck(config, indexName) ==
    IF indexName = UndefinedValue THEN config.table
    ELSE IF Has(config, "indexes")
    THEN IF Has(config.indexes, indexName) THEN config.indexes[indexName] ELSE config.table
    ELSE config.table

\* getKeyConfig(entityConfig, indexName)
getKeyConfig(config, indexName) ==
    IF indexName = UndefinedValue THEN config.table
    ELSE IF Has(config, "indexes")
    THEN IF Has(config.indexes, indexName)
         THEN config.indexes[indexName]
         ELSE UsageError("Index " \o indexName \o " is not defined on the Entity")
    ELSE UsageError("Index " \o indexName \o " is not defined on the Entity")

\* KeyConditionBuilder.build, first part: the partition key equality.
PartitionCondition(keyConfig, queryParams) ==
    [text |-> nameAlias(keyConfig.pkName) \o " = " \o valueAlias(keyConfig.pkName),
     nameAliases |-> nameAlias(keyConfig.pkName) :> keyConfig.pkName,
     valueAliases |-> valueAlias(keyConfig.pkName) :> queryParams.partitionKey,
     clauses |-> <<Clause(Operator.EQ, keyConfig.pkName)>>]

\* The sort-key test of the two apply methods with the sort key taken as declared.
SortKeyMissing_Never(keyConfig) == FALSE

\* !skName
SortKeyMissing(keyConfig) == ~Has(keyConfig, "skName")

\* this.keyConfig.skName: undefined when the key configuration declares none.
SkName(keyConfig) == IF Has(keyConfig, "skName") THEN keyConfig.skName ELSE UndefinedValue

\* KeyConditionBuilder.applyOperator
applyOperator(expression, keyConfig, queryParams) ==
    IF SortKeyMissing(keyConfig)
    THEN UsageError("Sort key is not present for " \o queryParams.operator \o " operation")
    ELSE [text |-> expression.text \o " and "
                    \o ExpressionTextFor(queryParams.operator, SkName(keyConfig)),
          nameAliases |-> Assign(expression.nameAliases, nameAlias(SkName(keyConfig)),
                                 SkName(keyConfig)),
          valueAliases |-> Assign(expression.valueAliases, valueAlias(SkName(keyConfig)),
                                  queryParams.sortKey),
          clauses |-> Append(expression.clauses,
                             Clause(queryParams.operator, SkName(keyConfig)))]

\* The range test of applyBetweenOperator with only a missing array refused.
RangeMissing_AnyLength(queryParams) == ~Has(queryParams, "sortKeyValues")

\* !sortKeyValues || sortKeyValues.length !== 2
RangeMissing(queryParams) ==
    IF ~Has(queryParams, "sortKeyValues") THEN TRUE
    ELSE Len(queryParams.sortKeyValues) # 2

\* KeyConditionBuilder.applyBetweenOperator
applyBetweenOperator(expression, keyConfig, queryParams) ==
    IF SortKeyMissing(keyConfig) \/ RangeMissing(queryParams)
    THEN UsageError("Sort key/Range is not present for between operation")
    ELSE [text |-> expression.text \o " and "
                    \o ExpressionTextFor(Operator.Between, SkName(keyConfig)),
          nameAliases |-> Assign(expression.nameAliases, nameAlias(SkName(keyConfig)),
                                 SkName(keyConfig)),
          valueAliases |->
              Assign(Assign(expression.valueAliases, fromValueAlias(SkName(keyConfig)),
                            At(queryParams.sortKeyValues, 0)),
                     toValueAlias(SkName(keyConfig)), At(queryParams.sortKeyValues, 1)),
          clauses |-> Append(expression.clauses, Clause(Operator.Between, SkName(keyConfig)))]

\* KeyConditionBuilder.build
KeyConditionBuild(keyConfig, queryParams) ==
    IF ~Has(queryParams, "operator")
    THEN PartitionCondition(keyConfig, queryParams)
    ELSE IF queryParams.operator = Operator.Between
    THEN applyBetweenOperator(PartitionCondition(keyConfig, queryParams), keyConfig,
                              queryParams)
    ELSE applyOperator(PartitionCondition(keyConfig, queryParams), keyConfig, queryParams)

----------------------------------------------------------------------------
\* FilterBuilder, buildProjection, buildExclusiveStartKey

\* FilterBuilder.processFilter: the filter's aliases and text segment are added to
\* the expression. Reading attributeValues[0] of a filter without the array throws.
processFilter(expression, filter) ==
    LET attributeName == filter.attributeName
        names == Assign(expression.nameAliases, nameAlias(attributeName), attributeName)
        added(values) ==
            [nameAliases |-> names,
             valueAliases |-> values,
             textSegments |-> Append(expression.textSegments,
                                     ExpressionTextFor(filter.operator, attributeName)),
             clauses |-> Append(expression.clauses, Clause(filter.operator, attributeName))]
    IN  IF filter.operator = Operator.Between
        THEN IF ~Has(filter, "attributeValues") THEN TypeError
             ELSE added(Assign(Assign(expression.valueAliases,
                                      fromValueAlias(attributeName),
                                      At(filter.attributeValues, 0)),
                               toValueAlias(attributeName), At(filter.attributeValues, 1)))
        ELSE IF filter.operator # Operator.Exists
        THEN added(Assign(expression.valueAliases, valueAlias(attributeName),
                          filter.attributeValue))
        ELSE added(expression.valueAliases)

\* this.filters.forEach((filter) => this.processFilter(filter))
RECURSIVE ProcessFilters(_, _)
ProcessFilters(expression, filters) ==
    IF filters = <<>> THEN expression
    ELSE IF IsError(processFilter(expression, Head(filters)))
    THEN processFilter(expression, Head(filters))
    ELSE ProcessFilters(processFilter(expression, Head(filters)), Tail(filters))

\* FilterBuilder.build: no text without filters.
FilterBuild(options) ==
    LET empty == [nameAliases |-> EmptyMap, valueAliases |-> EmptyMap, clauses |-> <<>>]
        start == [nameAliases |-> EmptyMap, valueAliases |-> EmptyMap, clauses |-> <<>>,
                  textSegments |-> <<>>]
    IN  IF ~Has(options, "filters") THEN empty
        ELSE IF options.filters = <<>> THEN empty
        ELSE LET done == ProcessFilters(start, options.filters)
             IN  IF IsError(done) THEN done
                 ELSE [nameAliases |-> done.nameAliases,
                       valueAliases |-> done.valueAliases,
                       clauses |-> done.clauses,
                       text |-> Join(done.textSegments, " and ")]

\* attributes.forEach((attribute) => (nameAliases[nameAlias(attribute)] = attribute))
RECURSIVE ProjectionAliases(_)
ProjectionAliases(attributes) ==
    IF attributes = <<>> THEN EmptyMap
    ELSE Assign(ProjectionAliases(SubSeq(attributes, 1, Len(attributes) - 1)),
                nameAlias(attributes[Len(attributes)]), attributes[Len(attributes)])

\* buildProjection: {} without attributes.
buildProjection(options) ==
    IF ~Has(options, "attributes") THEN EmptyMap
    ELSE IF options.attributes = <<>> THEN EmptyMap
    ELSE [text |-> Join([i \in 1..Len(options.attributes) |->
                            nameAlias(options.attributes[i])], ","),
          nameAliases |-> ProjectionAliases(options.attributes)]

\* buildExclusiveStartKey(entityConfig, options): Undefined without a start key.
buildExclusiveStartKey(config, args) ==
    IF ~Has(args, "exclusiveStartKey") THEN Undefined
    ELSE IF ~Has(args, "indexName") \/ ~Has(args.exclusiveStartKey, "indexPk")
    THEN buildKey(config.table, args.exclusiveStartKey.tablePk)
    ELSE IF IsError(getKeyConfig(config, args.indexName))
    THEN getKeyConfig(config, args.indexName)
    ELSE Spread(buildKey(config.table, args.exclusiveStartKey.tablePk),
                buildKey(getKeyConfig(config, args.indexName),
                         args.exclusiveStartKey.indexPk))

----------------------------------------------------------------------------
\* query(entityClass, queryParams, options)

\* Attribute values of the queried items, in their sort order.
ValueOrder == <<"a", "b", "c">>
Rank(v) == CHOOSE i \in DOMAIN ValueOrder : ValueOrder[i] = v

\* Entity configurations that are queried: a table with a sort key and three
\* secondary indexes (one without a sort key, one whose partition key is named
\* as its sort key with "From" appended), and a table with neither.
QueryConfigs ==
    { [table |-> [tableName |-> "t", pkName |-> "pk", skName |-> "sk"],
       encryptedFields |-> <<>>,
       indexes |-> [byStatus |-> [pkName |-> "status"],
                    byAge |-> [pkName |-> "status", skName |-> "age"],
                    byRange |-> [pkName |-> "ageFrom", skName |-> "age"]]],
      [table |-> Table, encryptedFields |-> <<>>] }

\* The items of the queried table, in key order.
QueryIds == <<"i1", "i2", "i3">>
QueryItems(config) ==
    [id \in {"i1", "i2", "i3"} |->
        LET n == CHOOSE i \in DOMAIN QueryIds : QueryIds[i] = id
        IN  [pk |-> IF Has(config.table, "skName") THEN "a" ELSE ValueOrder[n],
             sk |-> ValueOrder[n],
             status |-> "a",
             age |-> ValueOrder[n],
             ageFrom |-> ValueOrder[4 - n]]]

\* options?.indexName
IndexNameOf(options) == IF Has(options, "indexName") THEN options.indexName ELSE UndefinedValue

\* x?.text and the like: the property when it is there.
Optional(object, property, name) ==
    IF Has(object, property) THEN name :> object[property] ELSE EmptyMap

\* The QueryCommandInput of the call, or the error thrown while building it, in
\* the order the builders run. The clauses of the two texts travel with the request.
QueryInput(config, queryParams, options) ==
    LET keyConfig == getKeyConfig(config, IndexNameOf(options))
        keyCondition == KeyConditionBuild(keyConfig, queryParams)
        projection == buildProjection(options)
        filter == FilterBuild(options)
        exclusiveStartKey == buildExclusiveStartKey(config, options)
        \* ...projection.nameAliases: nothing when it is undefined
        projectionAliases == IF Has(projection, "nameAliases")
                             THEN projection.nameAliases ELSE EmptyMap
    IN  IF IsError(keyConfig) THEN keyConfig
        ELSE IF IsError(keyCondition) THEN keyCondition
        ELSE IF IsError(filter) THEN filter
        ELSE IF IsError(exclusiveStartKey) THEN exclusiveStartKey
        ELSE Spread(Spread(Spread(Spread(
                [TableName |-> config.table.tableName,
                 KeyConditionExpression |-> keyCondition.text,
                 ExpressionAttributeValues |->
                     Spread(keyCondition.valueAliases, filter.valueAliases),
                 ExpressionAttributeNames |->
                     Spread(Spread(keyCondition.nameAliases, projectionAliases),
                            filter.nameAliases),
                 keyClauses |-> keyCondition.clauses,
                 filterClauses |-> filter.clauses],
                Optional(options, "indexName", "IndexName")),
                Optional(filter, "text", "FilterExpression")),
                Optional(projection, "text", "ProjectionExpression")),
                IF exclusiveStartKey = Undefined THEN EmptyMap
                ELSE "ExclusiveStartKey" :> exclusiveStartKey)

\* The inputs of the modelled query calls.
MaxFilters == 2

QueryParamsSet ==
    {[partitionKey |-> "a"]}
    \cup {[partitionKey |-> "a", operator |-> o, sortKey |-> "b"] :
            o \in {Operator.EQ, Operator.LT, Operator.GE, Operator.BeginsWith}}
    \cup {[partitionKey |-> "a", operator |-> Operator.Between]}
    \cup {[partitionKey |-> "a", operator |-> Operator.Between, sortKeyValues |-> r] :
            r \in {<<>>, <<"b">>, <<"b", "c">>, <<"a", "b", "c">>}}

Filters ==
    { [attributeName |-> "age", operator |-> Operator.GT, attributeValue |-> "a"],
      [attributeName |-> "age", operator |-> Operator.LT, attributeValue |-> "c"],
      [attributeName |-> "age", operator |-> Operator.Exists],
      [attributeName |-> "age", operator |-> Operator.Between],
      [attributeName |-> "age", operator |-> Operator.Between, attributeValues |-> <<"a">>],
      [attributeName |-> "age", operator |-> Operator.Between,
       attributeValues |-> <<"a", "b">>],
      [attributeName |-> "age", operator |-> Operator.Between,
       attributeValues |-> <<"a", "b", "c">>],
      [attributeName |-> "ageFrom", operator |-> Operator.EQ, attributeValue |-> "c"],
      [attributeName |-> "age", operator |-> "contains", attributeValue |-> "a"] }

\* The options: up to MaxFilters filters, a projection or a start key, each with
\* every choice of index (none, declared, undeclared).
QueryOptionsSet ==
    LET FilterLists == UNION {[1..n -> Filters] : n \in 0..MaxFilters}
        IndexChoices ==
            {EmptyMap} \cup {[indexName |-> n] : n \in {"byStatus", "byAge", "byRange", "missing"}}
        StartKeys ==
            { [tablePk |-> [partitionKey |-> "a", sortKey |-> "a"]],
              [tablePk |-> [partitionKey |-> "a", sortKey |-> "a"],
               indexPk |-> [partitionKey |-> "a", sortKey |-> "a"]] }
    IN  {Spread(i, [filters |-> f]) : i \in IndexChoices, f \in FilterLists}
        \cup {Spread(i, [attributes |-> <<"age", "sk">>]) : i \in IndexChoices}
        \cup {Spread(i, [exclusiveStartKey |-> k]) : i \in IndexChoices, k \in StartKeys}
        \cup IndexChoices

\* Up to client.query: the builders run and the request is sent, or a builder
\* throws and the call rejects with what it threw.
QueryCall(w) ==
    /\ pc[w] = "idle"
    /\ \E queryParams \in QueryParamsSet, options \in QueryOptionsSet :
        LET input == QueryInput(entityConfig, queryParams, options)
            call == [call |-> "query", queryParams |-> queryParams, options |-> options]
        IN  IF IsError(input)
            THEN /\ result' = [result EXCEPT ![w] =
                        [outcome |-> input, req |-> Spread(call, [op |-> "none"]),
                         resp |-> NoResp]]
                 /\ UNCHANGED <<pc, req, resp>>
            ELSE Send(w, Spread(call, [op |-> "query", input |-> input]))
    /\ UNCHANGED <<store, entityConfig, process, items, writes>>

\* The key schema the store queries: the index's when one is named.
QueriedKeys(config, input) ==
    LET keyConfig == IF ~Has(input, "IndexName") THEN config.table
                     ELSE IF ~Has(config, "indexes") THEN config.table
                     ELSE IF ~Has(config.indexes, input.IndexName) THEN config.table
                     ELSE config.indexes[input.IndexName]
    IN  {keyConfig.pkName} \cup (IF Has(keyConfig, "skName") THEN {keyConfig.skName} ELSE {})

\* The value an alias denotes in the request; undefined values are removed when
\* the request is marshalled.
Denoted(input, alias) ==
    IF Has(input.ExpressionAttributeValues, alias)
    THEN input.ExpressionAttributeValues[alias] ELSE UndefinedValue

\* The store rejects a request that names an index the table does not have, uses an
\* operator or an alias it does not define, filters on a key attribute, or gives a
\* range whose lower bound is above the upper one.
InvalidClause(input, clause) ==
    \/ clause.operator \notin {Operator[o] : o \in DOMAIN Operator}
    \/ ~Has(input.ExpressionAttributeNames, clause.name)
    \/ \E i \in DOMAIN clause.values : Denoted(input, clause.values[i]) = UndefinedValue
    \/ IF clause.operator = Operator.Between
          /\ \A i \in DOMAIN clause.values : Denoted(input, clause.values[i]) # UndefinedValue
       THEN Rank(Denoted(input, clause.values[1])) > Rank(Denoted(input, clause.values[2]))
       ELSE FALSE

InvalidQuery(config, input) ==
    \/ IF ~Has(input, "IndexName") THEN FALSE
       ELSE IF ~Has(config, "indexes") THEN TRUE
       ELSE ~Has(config.indexes, input.IndexName)
    \/ \E i \in DOMAIN input.keyClauses : InvalidClause(input, input.keyClauses[i])
    \/ \E i \in DOMAIN input.filterClauses :
        \/ InvalidClause(input, input.filterClauses[i])
        \/ IF Has(input.ExpressionAttributeNames, input.filterClauses[i].name)
           THEN input.ExpressionAttributeNames[input.filterClauses[i].name]
                    \in QueriedKeys(config, input)
           ELSE FALSE

\* A comparison of the store.
Compare(x, operator, values) ==
    CASE operator = Operator.EQ -> x = values[1]
      [] operator = Operator.LE -> Rank(x) <= Rank(values[1])
      [] operator = Operator.LT -> Rank(x) < Rank(values[1])
      [] operator = Operator.GE -> Rank(x) >= Rank(values[1])
      [] operator = Operator.GT -> Rank(x) > Rank(values[1])
      [] operator = Operator.BeginsWith -> x = values[1]
      [] operator = Operator.Between ->
            Rank(values[1]) <= Rank(x) /\ Rank(x) <= Rank(values[2])

\* A clause holds of an item under the alias maps of the request.
ClauseHolds(item, clause, input) ==
    LET attribute == input.ExpressionAttributeNames[clause.name]
    IN  /\ Has(item, attribute)
        /\ IF clause.operator = Operator.Exists THEN TRUE
           ELSE Compare(item[attribute], clause.operator,
                        [i \in DOMAIN clause.values |-> Denoted(input, clause.values[i])])

Matches(item, input) ==
    /\ \A i \in DOMAIN input.keyClauses : ClauseHolds(item, input.keyClauses[i], input)
    /\ \A i \in DOMAIN input.filterClauses : ClauseHolds(item, input.filterClauses[i], input)

\* The item is past the start key: it does not carry the key's attributes itself.
PastStartKey(item, input) ==
    IF Has(input, "ExclusiveStartKey")
    THEN \E a \in DOMAIN input.ExclusiveStartKey :
            IF Has(item, a) THEN item[a] # input.ExclusiveStartKey[a] ELSE TRUE
    ELSE TRUE

\* The attributes of the projection, or all of them.
Projected(item, input) ==
    IF Has(input, "ProjectionExpression")
    THEN [a \in {x \in DOMAIN item :
                    \E n \in DOMAIN input.ExpressionAttributeNames :
                        input.ExpressionAttributeNames[n] = x} |-> item[a]]
    ELSE item

\* The store answers the query with the matching items in key order.
StoreQuery(w) ==
    /\ pc[w] = "sent"
    /\ req[w].op = "query"
    /\ \/ /\ IF InvalidQuery(entityConfig, req[w].input)
             THEN StoreAnswers(w, ValidationException, store)
             ELSE StoreAnswers(w,
                    [kind |-> "ok",
                     Items |-> [i \in DOMAIN
                                    SelectSeq(QueryIds, LAMBDA id :
                                        /\ Matches(store[id], req[w].input)
                                        /\ PastStartKey(store[id], req[w].input)) |->
                                Projected(store[SelectSeq(QueryIds, LAMBDA id :
                                        /\ Matches(store[id], req[w].input)
                                        /\ PastStartKey(store[id], req[w].input))[i]],
                                    req[w].input)]],
                    store)
          /\ UNCHANGED writes
       \/ StoreFails(w)
    /\ UNCHANGED <<entityConfig, process, items, req, result>>

\* After client.query: every item becomes an entity and is decrypted.
QueryReturn(w) ==
    /\ pc[w] = "answered"
    /\ req[w].op = "query"
    /\ IF resp[w].answer.kind # "ok"
       THEN Finish(w, resp[w].answer)
       ELSE Finish(w, [kind |-> "ok",
                       items |-> [i \in DOMAIN resp[w].answer.Items |->
                                    decryptItem(NewEntity(resp[w].answer.Items[i]),
                                                entityConfig.encryptedFields)]])
    /\ UNCHANGED <<store, entityConfig, process, items, writes>>

----------------------------------------------------------------------------
\* UpdateExpression: the builder, text and alias maps. Values are written in JS
\* notation ("1", "[]", "0"), so that every value of the alias map is a string.

\* Attribute names an update can carry, in the order Object.entries yields them.
UpdateNames == <<"status", "tags", "count", "countInc", "versionInc", "emptyList", "zero">>

\* Object.entries(object), as the names in order.
Entries(object) == SelectSeq(UpdateNames, LAMBDA n : n \in DOMAIN object)

\* new UpdateExpression({ item, options })
UpdateExpressionNew ==
    [textElements |-> <<"versionNumber = versionNumber + " \o valueAlias("versionInc")>>,
     nameAliases |-> EmptyMap,
     valueAliases |-> valueAlias("versionInc") :> "1"]

\* One directive added to the expression: its text element, name alias and values.
Directive(expression, textElement, attributeName, values) ==
    [textElements |-> Append(expression.textElements, textElement),
     nameAliases |-> Assign(expression.nameAliases, nameAlias(attributeName), attributeName),
     valueAliases |-> Spread(expression.valueAliases, values)]

\* UpdateExpression.setExpressionForItem
RECURSIVE SetForEntries(_, _, _)
SetForEntries(expression, item, names) ==
    IF names = <<>> THEN expression
    ELSE SetForEntries(
            Directive(expression,
                      nameAlias(Head(names)) \o " = " \o valueAlias(Head(names)),
                      Head(names),
                      valueAlias(Head(names)) :>
                        (IF item[Head(names)] = UndefinedValue THEN "null"
                         ELSE item[Head(names)])),
            item, Tail(names))

setExpressionForItem(expression, item) == SetForEntries(expression, item, Entries(item))

\* UpdateExpression.setListAppendExpression
RECURSIVE ListAppendForEntries(_, _, _)
ListAppendForEntries(expression, fields, names) ==
    IF names = <<>> THEN expression
    ELSE ListAppendForEntries(
            Directive(expression,
                      nameAlias(Head(names)) \o " = list_append(if_not_exists("
                        \o nameAlias(Head(names)) \o ", " \o valueAlias("emptyList") \o "), "
                        \o valueAlias(Head(names)) \o ")",
                      Head(names),
                      Assign(valueAlias("emptyList") :> "[]",
                             valueAlias(Head(names)), fields[Head(names)])),
            fields, Tail(names))

setListAppendExpression(expression, options) ==
    IF ~Has(options, "listAppendFields") THEN expression
    ELSE ListAppendForEntries(expression, options.listAppendFields,
                              Entries(options.listAppendFields))

\* UpdateExpression.setIncrementsExpression
RECURSIVE IncrementsForEntries(_, _, _)
IncrementsForEntries(expression, fields, names) ==
    IF names = <<>> THEN expression
    ELSE IncrementsForEntries(
            Directive(expression,
                      nameAlias(Head(names)) \o " = if_not_exists("
                        \o nameAlias(Head(names)) \o ", " \o valueAlias("zero") \o ") + "
                        \o valueAlias(Head(names) \o "Inc"),
                      Head(names),
                      Assign(valueAlias("zero") :> "0",
                             valueAlias(Head(names) \o "Inc"), fields[Head(names)])),
            fields, Tail(names))

setIncrementsExpression(expression, options) ==
    IF ~Has(options, "incrementFields") THEN expression
    ELSE IncrementsForEntries(expression, options.incrementFields,
                              Entries(options.incrementFields))

\* UpdateExpression.build
UpdateExpressionOf(item, options) ==
    LET built == setIncrementsExpression(
                    setListAppendExpression(
                        setExpressionForItem(UpdateExpressionNew, item), options), options)
    IN  [text |-> "SET " \o Join(built.textElements, ","),
         nameAliases |-> built.nameAliases,
         valueAliases |-> built.valueAliases]

\* The inputs of the builder: each name is a direct attribute with a value, a
\* direct attribute that is undefined, a list-append field, an increment field or
\* not in the update; at most MaxAttributes are.
MaxAttributes == 3
NameSet == {UpdateNames[i] : i \in DOMAIN UpdateNames}
UpdateInputs ==
    {role \in [NameSet -> {"none", "direct", "undefined", "listAppend", "increment"}] :
        Cardinality({n \in NameSet : role[n] # "none"}) <= MaxAttributes}

\* The fields of one role, each with the value of the role.
FieldsOf(role, kind, value) == [n \in {x \in NameSet : role[x] = kind} |-> value]

\* new UpdateExpression({ item, options }).build() on one input.
BuildUpdateExpression(w) ==
    /\ pc[w] = "idle"
    /\ \E role \in UpdateInputs :
        LET item == Spread(FieldsOf(role, "direct", "v"),
                           FieldsOf(role, "undefined", UndefinedValue))
            options ==
                Spread(IF FieldsOf(role, "listAppend", "['x']") = EmptyMap THEN EmptyMap
                       ELSE [listAppendFields |-> FieldsOf(role, "listAppend", "['x']")],
                       IF FieldsOf(role, "increment", "5") = EmptyMap THEN EmptyMap
                       ELSE [incrementFields |-> FieldsOf(role, "increment", "5")])
        IN  result' = [result EXCEPT ![w] =
                [outcome |-> [kind |-> "ok",
                              expression |-> UpdateExpressionOf(item, options)],
                 req |-> [call |-> "UpdateExpression", op |-> "none",
                          item |-> item, options |-> options],
                 resp |-> NoResp]]
    /\ UNCHANGED <<store, entityConfig, process, items, pc, req, resp, writes>>

----------------------------------------------------------------------------
\* new DynamoMapper(args)

\* Constructions explored in one process.
MaxMappers == 4

\* args?.region: "undefined" is a construction without a region.
Regions == {"undefined", "us-east-1", "eu-west-1"}

NoClient == [absent |-> TRUE]

\* DynamoDBDocument.from(new DynamoDB({ region })): the n-th client of the process.
NewClient(n, region) == [id |-> n, region |-> region]

\* The constructor's test with the cache never consulted.
ClientMissing_Always(cached) == TRUE

\* if (!DynamoMapper._cachedClient)
ClientMissing(cached) == cached = NoClient

\* The constructor: the client is created when the cache holds none; the instance
\* takes the cached client.
Construct(region) ==
    /\ Len(mappers) < MaxMappers
    /\ LET client == IF ClientMissing(cachedClient)
                     THEN NewClient(created + 1, region)
                     ELSE cachedClient
       IN  /\ cachedClient' = client
           /\ created' = IF ClientMissing(cachedClient) THEN created + 1 ELSE created
           /\ mappers' = Append(mappers, [client |-> client, args |-> [region |-> region]])
    /\ UNCHANGED <<store, entityConfig, items, pc, req, resp, result, writes>>

\* The process of the other models: one mapper, constructed without a region.
OneMapper ==
    /\ cachedClient = NewClient(1, "undefined")
    /\ mappers = <<[client |-> NewClient(1, "undefined"), args |-> [region |-> "undefined"]]>>
    /\ created = 1

----------------------------------------------------------------------------
\* The general model: one caller, one item, every operation of the mapper.

Init ==
    /\ store = [i \in Ids |-> NoItem]
    /\ entityConfig \in EntityConfigs
    /\ items = [w \in Writers |-> <<>>]
    /\ pc = [w \in Writers |-> "idle"]
    /\ req = [w \in Writers |-> NoReq]
    /\ resp = [w \in Writers |-> NoResp]
    /\ result = [w \in Writers |-> NoResult]
    /\ writes = [i \in Ids |-> 0]
    /\ OneMapper

Next ==
    \E w \in Writers :
        \/ NewItem(w)
        \/ PutItemCall(w)
        \/ StorePut(w)
        \/ PutItemReturn(w)
        \/ GetItemCall(w)
        \/ StoreGet(w)
        \/ GetItemReturn(w)
        \/ UpdateItemCall(w)
        \/ StoreUpdate(w)
        \/ UpdateItemReturn(w)
        \/ DeleteItemCall(w)
        \/ StoreDelete(w)
        \/ DeleteItemReturn(w)
        \/ TransactPutCall(w)
        \/ StoreTransactWrite(w)
        \/ TransactPutReturn(w)

Spec == Init /\ [][Next]_vars

----------------------------------------------------------------------------
\* putItem and updateItem only, every put version-checked: the calls that advance
\* the version of an item that starts absent.

NextPutUpdate ==
    \E w \in Writers :
        \/ NewItem(w)
        \/ PutItem(w, FALSE)
        \/ StorePut(w)
        \/ PutItemReturn(w)
        \/ UpdateItemCall(w)
        \/ StoreUpdate(w)
        \/ UpdateItemReturn(w)

SpecPutUpdate == Init /\ [][NextPutUpdate]_vars

----------------------------------------------------------------------------
\* The race: the stored item is at version v (absent for v = 0) and two callers
\* each hold it at that version, with their own change to `status` (a fresh entity
\* each when the item is absent, else what getItem returned, edited). Each calls
\* putItem once, with version checking; the three steps of the two calls interleave
\* freely.

RaceId == "a"

InitRace ==
    \E v \in 0..(MaxVersion - 1), config \in EntityConfigs, s0 \in Status, s1 \in Status,
       s2 \in Status :
        LET fresh(s) == NewEntity([id |-> RaceId, status |-> s, secret |-> "s"])
            stored == IF v = 0 THEN NoItem
                      ELSE SetAttr(buildPutItemInput(fresh(s0), FALSE, config).Item,
                                   "versionNumber", v)
            held(s) == IF v = 0 THEN fresh(s)
                       ELSE SetAttr(decryptItem(NewEntity(stored), config.encryptedFields),
                                    "status", s)
        IN  /\ v < MaxWrites
            /\ store = [i \in {RaceId} |-> stored]
            /\ entityConfig = config
            /\ items = [w \in Racers |-> IF w = "w1" THEN <<held(s1)>> ELSE <<held(s2)>>]
            /\ writes = [i \in {RaceId} |-> v]
            /\ pc = [w \in Racers |-> "idle"]
            /\ req = [w \in Racers |-> NoReq]
            /\ resp = [w \in Racers |-> NoResp]
            /\ result = [w \in Racers |-> NoResult]
            /\ OneMapper

\* The one putItem call of a racer.
RacePut(w) == result[w] = NoResult /\ PutItem(w, FALSE)

NextRace ==
    \E w \in Racers :
        \/ RacePut(w)
        \/ StorePut(w)
        \/ PutItemReturn(w)

SpecRace == InitRace /\ [][NextRace]_vars

----------------------------------------------------------------------------
\* One transactPut call on a list of entities with distinct ids 1..n. The item at
\* `stale` is already stored (version 1) while the caller holds a fresh entity for
\* it; the item at `read` is stored and the caller holds what getItem returned.

\* The list lengths explored: around one item and around the limit.
TxSizes == {0, 1, 2, 3, TransactLimit - 1, TransactLimit, TransactLimit + 1, MaxItems}

InitTx ==
    \E n \in TxSizes, config \in EntityConfigs, stale \in {0, 1, MaxItems},
       read \in {0, 2} :
        LET last == IF stale = MaxItems THEN n ELSE stale
            fresh(i) == NewEntity([id |-> i, secret |-> "s"])
            storedOf(i) == buildPutItemInput(fresh(i), FALSE, config).Item
            held(i) == IF i = read
                       THEN decryptItem(NewEntity(storedOf(i)), config.encryptedFields)
                       ELSE fresh(i)
        IN  /\ last <= n /\ read <= n /\ (read = 0 \/ read # last)
            /\ stale = MaxItems => n > 1
            /\ store = [i \in 1..MaxItems |->
                            IF i \in {last, read} THEN storedOf(i) ELSE NoItem]
            /\ entityConfig = config
            /\ items = [w \in Writers |-> [i \in 1..n |-> held(i)]]
            /\ writes = [i \in 1..MaxItems |-> IF i \in {last, read} THEN 1 ELSE 0]
            /\ pc = [w \in Writers |-> "idle"]
            /\ req = [w \in Writers |-> NoReq]
            /\ resp = [w \in Writers |-> NoResp]
            /\ result = [w \in Writers |-> NoResult]
            /\ OneMapper

\* The one transactPut call of the caller.
TransactPutOnce(w) == result[w] = NoResult /\ TransactPutCall(w)

NextTx ==
    \E w \in Writers :
        \/ TransactPutOnce(w)
        \/ StoreTransactWrite(w)
        \/ TransactPutReturn(w)

SpecTx == InitTx /\ [][NextTx]_vars

----------------------------------------------------------------------------
\* A process that constructs mappers, with any region arguments, and does nothing
\* else.

InitMapper ==
    /\ cachedClient = NoClient
    /\ mappers = <<>>
    /\ created = 0
    /\ store = [i \in Ids |-> NoItem]
    /\ entityConfig \in EntityConfigs
    /\ items = [w \in Writers |-> <<>>]
    /\ pc = [w \in Writers |-> "idle"]
    /\ req = [w \in Writers |-> NoReq]
    /\ resp = [w \in Writers |-> NoResp]
    /\ result = [w \in Writers |-> NoResult]
    /\ writes = [i \in Ids |-> 0]

NextMapper == \E region \in Regions : Construct(region)

SpecMapper == InitMapper /\ [][NextMapper]_vars

----------------------------------------------------------------------------
\* Queries: one caller queries a table of three items.

InitQuery ==
    /\ entityConfig \in QueryConfigs
    /\ store = QueryItems(entityConfig)
    /\ items = [w \in Writers |-> <<>>]
    /\ pc = [w \in Writers |-> "idle"]
    /\ req = [w \in Writers |-> NoReq]
    /\ resp = [w \in Writers |-> NoResp]
    /\ result = [w \in Writers |-> NoResult]
    /\ writes = [i \in Ids |-> 0]
    /\ OneMapper

\* The one query call of the caller.
QueryOnce(w) == result[w] = NoResult /\ QueryCall(w)

NextQuery ==
    \E w \in Writers :
        \/ QueryOnce(w)
        \/ StoreQuery(w)
        \/ QueryReturn(w)

SpecQuery == InitQuery /\ [][NextQuery]_vars

----------------------------------------------------------------------------
\* The update expression builder on its inputs.

\* The one expression built in a behaviour.
BuildOnce(w) == result[w] = NoResult /\ BuildUpdateExpression(w)

NextUpdateExpression == \E w \in Writers : BuildOnce(w)

SpecUpdateExpression == Init /\ [][NextUpdateExpression]_vars

----------------------------------------------------------------------------
\* What the properties below read from the record of a finished call.

\* The store evaluated the request of the call: it answered, and not with a fault
\* of its own.
Evaluated(r) == r.resp # NoResp /\ r.resp.answer \notin OtherStoreErrors

\* The versionNumber of a stored item, 0 when there is none.
VersionOf(stored) == IF Has(stored, "versionNumber") THEN stored.versionNumber ELSE 0

\* The store requests a finished call issued, in order.
RequestsIssued(r) == IF r.req.op = "none" THEN <<>> ELSE <<r.req>>

----------------------------------------------------------------------------
\* C1: starting from an absent item, after N successful putItem/updateItem calls
\* (failed calls in between not counted) the stored versionNumber is N; the first
\* successful put stores 1. Stated for every key: an item is stored exactly when a
\* write succeeded, and its versionNumber is the number of successful writes.
C1_VersionIsWriteCount ==
    \A id \in DOMAIN store :
        IF store[id] = NoItem
        THEN writes[id] = 0
        ELSE VersionOf(store[id]) = writes[id]

\* A put that succeeded on the first try stores version 1.
C1_FirstPutStoresOne ==
    \E w \in Writers :
        /\ result[w].req.op = "put"
        /\ result[w].outcome = Ok
        /\ result[w].resp.pre[KeyOf(result[w].req.input.Item)] = NoItem
        /\ VersionOf(store[KeyOf(result[w].req.input.Item)]) = 1

----------------------------------------------------------------------------
\* C2: a version-checked putItem of an item whose in-memory versionNumber differs
\* from the versionNumber of the existing stored item fails with
\* VersionMismatchError and leaves the table as it was.
C2_StaleVersionRejected ==
    \A w \in Writers :
        LET r == result[w]
        IN  (r.req.op = "put" /\ ~r.req.options.skipVersionCheck /\ Evaluated(r)) =>
                LET pre == r.resp.pre[KeyOf(r.req.input.Item)]
                IN  (pre # NoItem /\ VersionOf(pre) # CurrentVersion(r.req.item)) =>
                        /\ r.outcome = VersionMismatchError
                        /\ r.resp.post = r.resp.pre

\* A version-checked put of a stale item was rejected.
C2_StaleVersionPut ==
    \E w \in Writers :
        LET r == result[w]
        IN  /\ r.req.op = "put"
            /\ ~r.req.options.skipVersionCheck
            /\ Evaluated(r)
            /\ r.resp.pre[KeyOf(r.req.input.Item)] # NoItem
            /\ VersionOf(r.resp.pre[KeyOf(r.req.input.Item)]) # CurrentVersion(r.req.item)
            /\ r.outcome = VersionMismatchError

----------------------------------------------------------------------------
\* C3: two callers hold the same item at the stored version v and each calls
\* putItem with version checking. Under every interleaving exactly one call
\* succeeds, the table then holds that caller's item at version v + 1, and the
\* other call fails with VersionMismatchError; a write that succeeded is never
\* overwritten by the other caller.

RaceOver == \A w \in Racers : pc[w] = "idle" /\ result[w].req.op = "put" /\ Evaluated(result[w])

C3_ExactlyOneWins ==
    /\ \A w \in Racers :
        (result[w].req.op = "put" /\ result[w].outcome = Ok) =>
            store[RaceId] = result[w].req.input.Item
    /\ RaceOver =>
        \E win \in Racers :
            /\ result[win].outcome = Ok
            /\ store[RaceId] = result[win].req.input.Item
            /\ VersionOf(store[RaceId]) = CurrentVersion(result[win].req.item) + 1
            /\ VersionOf(store[RaceId]) = writes[RaceId]
            /\ \A lose \in Racers \ {win} :
                /\ result[lose].outcome = VersionMismatchError
                /\ CurrentVersion(result[lose].req.item) = CurrentVersion(result[win].req.item)
                /\ result[lose].resp.post = result[lose].resp.pre

\* Both calls are over, on an existing item, the two callers writing different data.
C3_RaceDecided ==
    /\ RaceOver
    /\ VersionOf(store[RaceId]) = MaxVersion
    /\ result["w1"].req.input.Item # result["w2"].req.input.Item
    /\ result["w2"].outcome = Ok

----------------------------------------------------------------------------
\* C4: putItem attaches the version condition to every request unless the caller
\* passes skipVersionCheck; with skipVersionCheck the request carries no condition
\* and the store accepts the write whatever the stored version is.
C4_ConditionUnlessSkipped ==
    \A w \in Writers :
        /\ \A q \in {req[w], result[w].req} :
            q.op = "put" =>
                /\ Has(q.input, "ConditionExpression") <=> ~q.options.skipVersionCheck
                /\ Has(q.input, "ExpressionAttributeValues") <=> ~q.options.skipVersionCheck
                /\ ~q.options.skipVersionCheck =>
                    /\ q.input.ConditionExpression = VersionCondition
                    /\ q.input.ExpressionAttributeValues =
                            [currentVersion |-> CurrentVersion(q.item)]
        /\ LET r == result[w]
           IN  (r.req.op = "put" /\ r.req.options.skipVersionCheck /\ Evaluated(r)) =>
                    /\ r.outcome = Ok
                    /\ r.resp.post =
                        [r.resp.pre EXCEPT ![KeyOf(r.req.input.Item)] = r.req.input.Item]

\* A put with skipVersionCheck was accepted over a stored item of another version.
C4_SkippedOverStale ==
    \E w \in Writers :
        LET r == result[w]
        IN  /\ r.req.op = "put"
            /\ r.req.options.skipVersionCheck
            /\ r.outcome = Ok
            /\ r.resp.pre[KeyOf(r.req.input.Item)] # NoItem
            /\ VersionOf(r.resp.pre[KeyOf(r.req.input.Item)]) # CurrentVersion(r.req.item)

----------------------------------------------------------------------------
----------------------------------------------------------------------------
----------------------------------------------------------------------------
\* What a version-checked put of `item0` does, whichever call carries it: the
\* request `put` is the one buildPutItemInput builds for the item; when the store
\* evaluates it, the item is stored and the call succeeds if the condition holds,
\* else the call fails with VersionMismatchError and the table is as it was; a
\* fault of the store is rethrown as it is.
PutEffect(r, item0, put) ==
    LET id == KeyOf(put.Item)
        pre == r.resp.pre[id]
    IN  /\ put = buildPutItemInput(item0, FALSE, entityConfig)
        /\ IF r.resp.answer \in OtherStoreErrors
           THEN r.outcome = r.resp.answer /\ r.resp.post = r.resp.pre
           ELSE IF PutConditionHolds(pre, put)
           THEN r.outcome = Ok /\ r.resp.post = [r.resp.pre EXCEPT ![id] = put.Item]
           ELSE r.outcome = VersionMismatchError /\ r.resp.post = r.resp.pre

\* The store cancelled the transaction for a reason other than a condition.
CancelledOtherwise(r) ==
    /\ r.resp.answer.kind = "error"
    /\ r.resp.answer.name = "TransactionCanceledException"
    /\ \A i \in 1..Len(r.resp.answer.CancellationReasons) :
            r.resp.answer.CancellationReasons[i].Code # "ConditionalCheckFailed"

----------------------------------------------------------------------------
\* The store cancelled the transaction with at least one conditional-check-failure
\* reason.
CancelledForCondition(answer) ==
    /\ answer.kind = "error"
    /\ answer.name = "TransactionCanceledException"
    /\ \E i \in 1..Len(answer.CancellationReasons) :
            answer.CancellationReasons[i].Code = "ConditionalCheckFailed"

\* C8: transactPut fails with VersionMismatchError exactly when the store cancels
\* the transaction with at least one conditional-check-failure reason; any other
\* cancellation or error is rethrown as the same error; in both cases no item of
\* the batch is stored.
C8_MismatchIffConditionFailed ==
    \A w \in Writers :
        LET r == result[w]
        IN  /\ (r.req.call = "transactPut" /\ r.req.op = "none") =>
                r.outcome # VersionMismatchError
            /\ (r.req.call = "transactPut" /\ r.req.op = "transactWrite") =>
                /\ r.outcome = VersionMismatchError <=> CancelledForCondition(r.resp.answer)
                /\ (r.resp.answer.kind = "error" /\ ~CancelledForCondition(r.resp.answer)) =>
                        r.outcome = r.resp.answer
                /\ r.resp.answer.kind = "error" =>
                        /\ r.resp.post = r.resp.pre
                        /\ store = r.resp.pre

\* A batch with one stale item among fresh ones failed with VersionMismatchError.
C8_OneStaleAmongFresh ==
    \E w \in Writers :
        LET r == result[w]
        IN  /\ r.req.op = "transactWrite"
            /\ r.outcome = VersionMismatchError
            /\ Len(r.req.TransactItems) = TransactLimit
            /\ \E i, j \in 1..TransactLimit :
                    /\ r.resp.answer.CancellationReasons[i].Code = "ConditionalCheckFailed"
                    /\ r.resp.answer.CancellationReasons[j].Code = "None"

----------------------------------------------------------------------------
\* The caller's conditions do not match the stored item.
ConditionsMismatch(stored, conditions) ==
    IF conditions = NoConditions THEN FALSE
    ELSE \E c \in DOMAIN conditions :
            IF Has(stored, c) THEN stored[c] # conditions[c] ELSE TRUE

\* C9: deleteItem returns undefined, and does not throw, when there is no item at
\* the key and when an expected value does not match; a mismatch leaves the item
\* as it is; with matching (or no) conditions the item is removed and its prior
\* image is what the call returns (decrypted, unless the crypto provider rejects).
C9_DeleteOutcome ==
    \A w \in Writers :
        LET r == result[w]
        IN  (r.req.op = "delete" /\ Evaluated(r)) =>
                LET id == KeyOf(r.req.Key)
                    pre == r.resp.pre[id]
                IN  IF pre = NoItem \/ ConditionsMismatch(pre, r.req.conditions)
                    THEN /\ r.outcome = Undefined
                         /\ r.resp.post = r.resp.pre
                    ELSE /\ r.resp.post = [r.resp.pre EXCEPT ![id] = NoItem]
                         /\ IF r.outcome = DecryptError
                            THEN DecryptInvoked(pre, entityConfig.encryptedFields)
                            ELSE r.outcome =
                                    Returned(decryptItem(NewEntity(pre),
                                                         entityConfig.encryptedFields))

\* A delete expecting another status than the stored one returned undefined and the
\* item is still there.
C9_MismatchKeepsItem ==
    \E w \in Writers :
        LET r == result[w]
        IN  /\ r.req.op = "delete"
            /\ Evaluated(r)
            /\ r.resp.pre[KeyOf(r.req.Key)] # NoItem
            /\ ConditionsMismatch(r.resp.pre[KeyOf(r.req.Key)], r.req.conditions)
            /\ r.outcome = Undefined
            /\ store[KeyOf(r.req.Key)] = r.resp.pre[KeyOf(r.req.Key)]

----------------------------------------------------------------------------
\* C10: updateItem on a key with no stored item fails with NotFoundError and
\* creates no item at that key; an error of the store other than a validation
\* error is rethrown as it is.
C10_UpdateAbsentNotFound ==
    \A w \in Writers :
        LET r == result[w]
        IN  r.req.op = "update" =>
                /\ (Evaluated(r) /\ r.resp.pre[KeyOf(r.req.Key)] = NoItem) =>
                        /\ r.outcome = NotFoundError
                        /\ r.resp.post[KeyOf(r.req.Key)] = NoItem
                        /\ r.resp.post = r.resp.pre
                /\ (r.resp.answer.kind = "error"
                        /\ r.resp.answer.name # "ValidationException") =>
                        r.outcome = r.resp.answer

\* An update of an absent key failed with NotFoundError and the key is still empty.
C10_AbsentKeyUpdated ==
    \E w \in Writers :
        LET r == result[w]
        IN  /\ r.req.op = "update"
            /\ Evaluated(r)
            /\ r.resp.pre[KeyOf(r.req.Key)] = NoItem
            /\ r.outcome = NotFoundError
            /\ store[KeyOf(r.req.Key)] = NoItem

----------------------------------------------------------------------------
\* C20: across any sequence of DynamoMapper constructions in one process, with any
\* region arguments, the store client is created exactly once, by the first
\* construction (with its region), and every instance uses that same client; the
\* cached client is never replaced or removed.
C20_OneClientPerProcess ==
    IF mappers = <<>>
    THEN created = 0 /\ cachedClient = NoClient
    ELSE /\ created = 1
         /\ cachedClient = NewClient(1, mappers[1].args.region)
         /\ \A i \in 1..Len(mappers) : mappers[i].client = cachedClient

\* Three mappers were constructed, the later ones with other regions than the first.
C20_ThreeRegions ==
    /\ Len(mappers) >= 3
    /\ mappers[2].args.region # mappers[1].args.region
    /\ mappers[3].args.region # mappers[1].args.region
    /\ mappers[3].args.region # mappers[2].args.region

----------------------------------------------------------------------------
\* Queries as claims see them.

\* The query names an index the entity configuration does not declare.
UndeclaredIndex(q) ==
    /\ q.call = "query"
    /\ Has(q.options, "indexName")
    /\ IF Has(entityConfig, "indexes")
       THEN ~Has(entityConfig.indexes, q.options.indexName) ELSE TRUE

\* The call ended with an error before any request was sent.
RejectedUnsent(r) == IsError(r.outcome) /\ r.req.op = "none" /\ r.resp = NoResp

\* C11: a query whose options name an index that the entity configuration does not
\* declare fails with an error, and no store request is issued during the call.
C11_UndeclaredIndexRejected ==
    \A w \in Writers :
        /\ ~UndeclaredIndex(req[w])
        /\ UndeclaredIndex(result[w].req) => RejectedUnsent(result[w])

C11_MissingIndexQueried ==
    \E w \in Writers :
        /\ UndeclaredIndex(result[w].req)
        /\ Has(entityConfig, "indexes")
        /\ result[w].outcome = UsageError("Index missing is not defined on the Entity")


\* The key condition asks for a range without exactly two bounds.
BadKeyRange(q) ==
    /\ q.call = "query"
    /\ Has(q.queryParams, "operator")
    /\ q.queryParams.operator = Operator.Between
    /\ IF Has(q.queryParams, "sortKeyValues")
       THEN Len(q.queryParams.sortKeyValues) # 2 ELSE TRUE

\* C12: a key condition with operator between and a sortKeyValues array that is
\* missing or whose length is not exactly 2 fails with an error, and the query
\* issues no store request.
C12_KeyRangeRejected ==
    \A w \in Writers :
        /\ ~BadKeyRange(req[w])
        /\ BadKeyRange(result[w].req) => RejectedUnsent(result[w])

C12_ThreeBoundsRejected ==
    \E w \in Writers :
        /\ BadKeyRange(result[w].req)
        /\ result[w].req.options = EmptyMap
        /\ Has(entityConfig.table, "skName")
        /\ Has(result[w].req.queryParams, "sortKeyValues")
        /\ Len(result[w].req.queryParams.sortKeyValues) = 3
        /\ result[w].outcome = UsageError("Sort key/Range is not present for between operation")

\* A filter asks for a range with an array of other than two bounds.
BadFilterRange(q) ==
    /\ q.call = "query"
    /\ Has(q.options, "filters")
    /\ \E i \in DOMAIN q.options.filters :
        /\ q.options.filters[i].operator = Operator.Between
        /\ Has(q.options.filters[i], "attributeValues")
        /\ Len(q.options.filters[i].attributeValues) # 2

\* C13: a filter with operator between and an attributeValues array whose length
\* is not exactly 2 fails with an error, and the query issues no store request.
C13_FilterRangeRejected ==
    \A w \in Writers :
        /\ ~BadFilterRange(req[w])
        /\ BadFilterRange(result[w].req) => RejectedUnsent(result[w])

C13_ThreeBoundsQueried ==
    \E w \in Writers :
        /\ BadFilterRange(result[w].req)
        /\ result[w].req.op = "query"
        /\ Len(result[w].req.options.filters) = 1
        /\ Len(result[w].req.options.filters[1].attributeValues) = 3
        /\ result[w].outcome.kind = "ok"

\* The key configuration the query runs on.
KeyConfigOf(q) == getKeyConfig(entityConfig, IndexNameOf(q.options))

\* A sort operator is asked of a declared key configuration without a sort key.
SortOperatorWithoutSortKey(q) ==
    /\ q.call = "query"
    /\ Has(q.queryParams, "operator")
    /\ ~IsError(KeyConfigOf(q))
    /\ ~Has(KeyConfigOf(q), "skName")

\* No sort operator is asked of a declared key configuration.
NoSortOperator(q) ==
    /\ q.call = "query"
    /\ ~Has(q.queryParams, "operator")
    /\ ~IsError(KeyConfigOf(q))

\* C14: a key condition with any sort-key operator, single-value or between, on a
\* key configuration that declares no sort-key name fails with a usage error
\* before any store request; without an operator the build succeeds on every key
\* configuration: the call throws no usage error.
C14_SortOperatorNeedsSortKey ==
    \A w \in Writers :
        /\ ~SortOperatorWithoutSortKey(req[w])
        /\ SortOperatorWithoutSortKey(result[w].req) =>
                RejectedUnsent(result[w]) /\ result[w].outcome.name = "Error"
        /\ NoSortOperator(result[w].req) =>
            /\ ~IsError(KeyConditionBuild(KeyConfigOf(result[w].req),
                                          result[w].req.queryParams))
            /\ IsError(result[w].outcome) => result[w].outcome.name # "Error"

C14_OperatorOnIndexWithoutSortKey ==
    \E w \in Writers :
        /\ SortOperatorWithoutSortKey(result[w].req)
        /\ Has(result[w].req.options, "indexName")
        /\ result[w].req.queryParams.operator = Operator.GE
        /\ result[w].outcome = UsageError("Sort key is not present for >= operation")

\* The value the caller gave for bound i (0-based) of value alias `alias`.
OwnValuesHeld(input, aliases, values) ==
    \A i \in DOMAIN aliases : Denoted(input, aliases[i]) = At(values, i - 1)

\* The values the caller gave for a key condition or a filter.
GivenValues(given) ==
    IF Has(given, "sortKeyValues") THEN given.sortKeyValues
    ELSE IF Has(given, "sortKey") THEN <<given.sortKey>>
    ELSE IF Has(given, "attributeValues") THEN given.attributeValues
    ELSE IF Has(given, "attributeValue") THEN <<given.attributeValue>>
    ELSE <<>>

\* C18: in the request of a query the merged alias maps never collide: every name
\* alias denotes the attribute of its clause, and every value alias of a clause
\* denotes the value the caller gave for that clause (the partition key, the sort
\* key or its bounds, each filter's value or bounds).
C18_AliasesNeverCollide ==
    \A w \in Writers :
        req[w].op = "query" =>
            LET input == req[w].input
                filters == IF Has(req[w].options, "filters")
                           THEN req[w].options.filters ELSE <<>>
            IN  /\ \A n \in DOMAIN input.ExpressionAttributeNames :
                    n = nameAlias(input.ExpressionAttributeNames[n])
                /\ OwnValuesHeld(input, input.keyClauses[1].values,
                                 <<req[w].queryParams.partitionKey>>)
                /\ Len(input.keyClauses) = 2 =>
                        OwnValuesHeld(input, input.keyClauses[2].values,
                                      GivenValues(req[w].queryParams))
                /\ \A i \in DOMAIN filters :
                        OwnValuesHeld(input, input.filterClauses[i].values,
                                      GivenValues(filters[i]))

\* One attribute filtered twice: `#age > :age and #age < :age` with one :age, so
\* the item between the two bounds is not returned.
C18_TwoFiltersOneAttribute ==
    \E w \in Writers :
        /\ result[w].req.op = "query"
        /\ result[w].req.queryParams = [partitionKey |-> "a"]
        /\ result[w].req.options =
            [filters |-> <<[attributeName |-> "age", operator |-> Operator.GT,
                            attributeValue |-> "a"],
                           [attributeName |-> "age", operator |-> Operator.LT,
                            attributeValue |-> "c"]>>]
        /\ Has(entityConfig.table, "skName")
        /\ result[w].req.input.FilterExpression = "#age > :age and #age < :age"
        /\ result[w].outcome = [kind |-> "ok", items |-> <<>>]

----------------------------------------------------------------------------
\* Sensitive fields.

\* The store holds, at the key of the caller's object, what a put of that object
\* stores: the object was put and nothing has been written there since.
StoredFrom(w) ==
    /\ Len(items[w]) = 1
    /\ Has(items[w][1], Table.pkName)
    /\ store[KeyOf(items[w][1])] = encryptItem(items[w][1], entityConfig.encryptedFields)

\* getItem of w returns an entity in this step.
GetReturnsEntity(w) ==
    /\ pc[w] = "answered"
    /\ req[w].op = "get"
    /\ resp[w].answer.kind = "ok"
    /\ pc'[w] = "idle"
    /\ result'[w].outcome = Ok

\* C15: for an entity with sensitive field secret and every value v of it, putItem
\* followed by getItem on the same key returns an entity whose secret equals v and
\* that has no encrypted_secret attribute.
C15_RoundTrip ==
    [][\A w \in Writers :
        (/\ GetReturnsEntity(w)
         /\ StoredFrom(w)
         /\ KeyOf(req[w].Key) = KeyOf(items[w][1])
         /\ entityConfig.encryptedFields = <<"secret">>
         /\ Has(items[w][1], "secret"))
        => /\ Has(items'[w][1], "secret")
           /\ items'[w][1].secret = items[w][1].secret
           /\ ~Has(items'[w][1], EncryptedKey("secret"))]_vars

\* A Set was put encrypted and the entity read back holds {} in its place.
C15_SetReadBackAsObject ==
    \E w \in Writers :
        /\ result[w].req.op = "get"
        /\ result[w].outcome = Ok
        /\ result[w].resp.answer.Item # NoItem
        /\ Has(result[w].resp.answer.Item, EncryptedKey("secret"))
        /\ result[w].resp.answer.Item[EncryptedKey("secret")] = Encrypt(Stringify("Set(x)"))
        /\ Len(items[w]) = 1
        /\ items[w][1].secret = "{}"

\* The calls that write.
WriteCalls == {"putItem", "transactPut", "updateItem"}

\* The sensitive fields of the object hold after what they held before, and the
\* object has no ciphertext-keyed attribute.
SensitiveUntouched(before, after) ==
    \A i \in 1..Len(entityConfig.encryptedFields) :
        LET field == entityConfig.encryptedFields[i]
        IN  /\ Has(before, field) <=> Has(after, field)
            /\ Has(before, field) => after[field] = before[field]
            /\ ~Has(after, EncryptedKey(field))

\* A write call of w runs up to its request, or up to the error that ends it.
WriteCallStarts(w) ==
    /\ pc[w] = "idle"
    /\ \/ pc'[w] = "sent" /\ req'[w].call \in WriteCalls
       \/ pc'[w] = "idle" /\ result'[w] # result[w] /\ result'[w].req.call \in WriteCalls

\* C16: on putItem, transactPut and updateItem the encrypt step leaves the caller's
\* object untouched: through the call, successful or failed, every sensitive field
\* of the object the caller passed holds its plaintext value and the object has no
\* ciphertext-keyed attribute.
C16_CallerObjectUntouched ==
    /\ [][\A w \in Writers :
            /\ WriteCallStarts(w) =>
                LET r == IF pc'[w] = "sent" THEN req'[w] ELSE result'[w].req
                IN  IF r.call = "updateItem"
                    THEN SensitiveUntouched(r.given, r.attributes) /\ items'[w] = items[w]
                    ELSE /\ Len(items'[w]) = Len(items[w])
                         /\ \A i \in DOMAIN items[w] :
                                SensitiveUntouched(items[w][i], items'[w][i])
            /\ (pc[w] # "idle" /\ req[w].call \in {"putItem", "transactPut"}) =>
                    items'[w] = items[w]]_vars
    /\ [](\A w \in Writers : \A i \in DOMAIN items[w] :
            ~Has(items[w][i], EncryptedKey("secret")))

\* A put whose request carries the ciphertext has returned, and the object that was
\* put still holds the plaintext.
C16_PlaintextKeptAfterPut ==
    \E w \in Writers :
        /\ result[w].req.call = "putItem"
        /\ result[w].outcome = Ok
        /\ Has(result[w].req.input.Item, EncryptedKey("secret"))
        /\ Len(items[w]) = 1
        /\ Has(items[w][1], "versionNumber")
        /\ items[w][1].versionNumber = result[w].req.input.Item.versionNumber
        /\ Has(items[w][1], "secret")
        /\ items[w][1].secret = "s"

\* C17: when the encrypt operation fails during putItem, transactPut or updateItem,
\* the call rejects with that failure, no store request is issued, and the store
\* is unchanged.
C17_EncryptFailureAborts ==
    /\ [](\A w \in Writers :
            Has(result[w].req, "thrown") =>
                /\ result[w].outcome = result[w].req.thrown
                /\ result[w].req.op = "none"
                /\ result[w].resp = NoResp)
    /\ [][\A w \in Writers :
            (Has(result'[w].req, "thrown") /\ result'[w] # result[w]) =>
                /\ store' = store
                /\ writes' = writes
                /\ pc'[w] = "idle"
                /\ req'[w] = NoReq]_vars

\* An item is stored, a later put of it fails in encrypt and the item stays as stored.
C17_PutRejectedOverStoredItem ==
    \E w \in Writers :
        /\ Has(result[w].req, "thrown")
        /\ result[w].req.call = "putItem"
        /\ result[w].outcome = EncryptError
        /\ store[result[w].req.item.id] # NoItem

----------------------------------------------------------------------------
\* Update expressions.

\* The value aliases of the directives of an update, one per directive.
DirectiveAliases(q) ==
    [n \in DOMAIN q.item |-> valueAlias(n)]
    @@ (IF Has(q.options, "listAppendFields")
        THEN [n \in DOMAIN q.options.listAppendFields |-> valueAlias(n)] ELSE EmptyMap)
    @@ (IF Has(q.options, "incrementFields")
        THEN [n \in DOMAIN q.options.incrementFields |-> valueAlias(n \o "Inc")]
        ELSE EmptyMap)

\* The value the caller gave for each directive, undefined given as null.
DirectiveValues(q) ==
    [n \in DOMAIN q.item |-> IF q.item[n] = UndefinedValue THEN "null" ELSE q.item[n]]
    @@ (IF Has(q.options, "listAppendFields") THEN q.options.listAppendFields ELSE EmptyMap)
    @@ (IF Has(q.options, "incrementFields") THEN q.options.incrementFields ELSE EmptyMap)

ReservedValues == (":versionInc" :> "1") @@ (":emptyList" :> "[]") @@ (":zero" :> "0")

\* C19: in the update expression built from direct attributes, list-append fields
\* and increment fields on pairwise distinct attribute names, no value alias is
\* shared by two directives, every directive's alias is bound to the directive's
\* own value, and the reserved aliases :versionInc, :emptyList and :zero hold
\* 1, [] and 0.
C19_UpdateAliasesDistinct ==
    \A w \in Writers :
        result[w].req.call = "UpdateExpression" =>
            LET q == result[w].req
                values == result[w].outcome.expression.valueAliases
                aliases == DirectiveAliases(q)
            IN  /\ \A n, m \in DOMAIN aliases : n # m => aliases[n] # aliases[m]
                /\ \A n \in DOMAIN aliases :
                    /\ aliases[n] \notin DOMAIN ReservedValues
                    /\ values[aliases[n]] = DirectiveValues(q)[n]
                /\ \A a \in DOMAIN ReservedValues :
                    Has(values, a) => values[a] = ReservedValues[a]

\* A direct attribute named versionInc: the version is advanced by its value.
C19_VersionIncOverridden ==
    \E w \in Writers :
        /\ result[w].req.call = "UpdateExpression"
        /\ result[w].req.item = [versionInc |-> "v"]
        /\ result[w].req.options = EmptyMap
        /\ result[w].outcome.expression.text =
            "SET versionNumber = versionNumber + :versionInc,#versionInc = :versionInc"
        /\ result[w].outcome.expression.valueAliases = ":versionInc" :> "v"

----------------------------------------------------------------------------
\* Expression texts.

\* C21: for every key configuration and query parameters, the built key condition
\* holds the partition clause '#pk = :pk' with nameAliases[#pk] = pk and
\* valueAliases[:pk] = partitionKey; without a sort operator that is the whole
\* expression and these are the only aliases; with a sort operator exactly one
\* sort clause follows after ' and '.
C21_PartitionClauseAlways ==
    \A w \in Writers :
        req[w].op = "query" =>
            LET keyConfig == KeyConfigOf(req[w])
                queryParams == req[w].queryParams
                built == KeyConditionBuild(keyConfig, queryParams)
                pk == keyConfig.pkName
                partition == nameAlias(pk) \o " = " \o valueAlias(pk)
            IN  /\ ~IsError(built)
                /\ req[w].input.KeyConditionExpression = built.text
                /\ built.nameAliases[nameAlias(pk)] = pk
                /\ built.valueAliases[valueAlias(pk)] = queryParams.partitionKey
                /\ IF ~Has(queryParams, "operator")
                   THEN /\ built.text = partition
                        /\ DOMAIN built.nameAliases = {nameAlias(pk)}
                        /\ DOMAIN built.valueAliases = {valueAlias(pk)}
                   ELSE /\ built.text = partition \o " and "
                            \o ExpressionTextFor(queryParams.operator, keyConfig.skName)
                        /\ Len(built.clauses) = 2

\* On an index with partition key ageFrom and sort key age, a range on age takes
\* the partition key's value alias: the items of another partition are returned.
C21_PartitionValueOverwritten ==
    \E w \in Writers :
        /\ result[w].req.op = "query"
        /\ result[w].req.options = [indexName |-> "byRange"]
        /\ result[w].req.queryParams.partitionKey = "a"
        /\ result[w].req.input.KeyConditionExpression =
            "#ageFrom = :ageFrom and #age between :ageFrom and :ageTo"
        /\ result[w].req.input.ExpressionAttributeValues[":ageFrom"] = "b"
        /\ result[w].outcome.kind = "ok"
        /\ Len(result[w].outcome.items) = 1
        /\ result[w].outcome.items[1].ageFrom = "b"

\* A query call that holds a filter whose operator is not a declared one.
UndeclaredOperator(q) ==
    /\ q.call = "query"
    /\ Has(q.options, "filters")
    /\ \E i \in DOMAIN q.options.filters :
        q.options.filters[i].operator \notin {Operator[o] : o \in DOMAIN Operator}

\* C22: ExpressionText.for is total over the declared operators and has no silent
\* default: =, <=, <, >=, > render '#n op :n', begins_with renders
\* 'begins_with(#n, :n)', attribute_exists renders 'attribute_exists(#n)', between
\* renders '#n between :nFrom and :nTo', and an operator outside the declared set
\* is rejected instead of rendered: no request carries it.
C22_NoSilentDefault ==
    /\ \A o \in {"=", "<=", "<", ">=", ">"} :
        ExpressionTextFor(o, "n") = "#n " \o o \o " :n"
    /\ ExpressionTextFor("begins_with", "n") = "begins_with(#n, :n)"
    /\ ExpressionTextFor("attribute_exists", "n") = "attribute_exists(#n)"
    /\ ExpressionTextFor("between", "n") = "#n between :nFrom and :nTo"
    /\ \A w \in Writers :
        /\ ~UndeclaredOperator(req[w])
        /\ UndeclaredOperator(result[w].req) => RejectedUnsent(result[w])

\* A filter with the operator 'contains' is rendered by the last branch and sent;
\* the store refuses the text.
C22_UndeclaredOperatorRendered ==
    \E w \in Writers :
        /\ UndeclaredOperator(result[w].req)
        /\ result[w].req.op = "query"
        /\ result[w].req.input.FilterExpression = "#age contains :age"
        /\ result[w].outcome = ValidationException

\* The terms of an update, in the order of the builder: the version increment,
\* the direct attributes, the list-append fields, the increment fields.
ExpectedTerms(q) ==
    LET direct == Entries(q.item)
        appended == IF Has(q.options, "listAppendFields")
                    THEN Entries(q.options.listAppendFields) ELSE <<>>
        incremented == IF Has(q.options, "incrementFields")
                       THEN Entries(q.options.incrementFields) ELSE <<>>
    IN  <<"versionNumber = versionNumber + :versionInc">>
        \o [i \in DOMAIN direct |-> "#" \o direct[i] \o " = :" \o direct[i]]
        \o [i \in DOMAIN appended |->
                "#" \o appended[i] \o " = list_append(if_not_exists(#" \o appended[i]
                    \o ", :emptyList), :" \o appended[i] \o ")"]
        \o [i \in DOMAIN incremented |->
                "#" \o incremented[i] \o " = if_not_exists(#" \o incremented[i]
                    \o ", :zero) + :" \o incremented[i] \o "Inc"]

\* C23: for every update input the builder yields one SET expression with exactly
\* one version-increment term, which adds 1, and exactly one term per direct
\* attribute, list-append field and increment field; an undefined direct
\* attribute is bound to null, a list-append term defaults the attribute to the
\* empty list and an increment term defaults it to zero.
C23_OneTermPerDirective ==
    \A w \in Writers :
        result[w].req.call = "UpdateExpression" =>
            LET q == result[w].req
                expression == result[w].outcome.expression
                values == expression.valueAliases
            IN  /\ expression.text = "SET " \o Join(ExpectedTerms(q), ",")
                /\ Len(ExpectedTerms(q)) = 1 + Cardinality(DOMAIN DirectiveAliases(q))
                /\ values[":versionInc"] = "1"
                /\ \A n \in DOMAIN q.item :
                    q.item[n] = UndefinedValue => values[valueAlias(n)] = "null"
                /\ Has(q.options, "listAppendFields") => values[":emptyList"] = "[]"
                /\ Has(q.options, "incrementFields") => values[":zero"] = "0"

\* A direct attribute versionInc that is undefined: the version term adds null.
C23_VersionAdvancedByNull ==
    \E w \in Writers :
        /\ result[w].req.call = "UpdateExpression"
        /\ result[w].req.item = [versionInc |-> UndefinedValue]
        /\ result[w].req.options = EmptyMap
        /\ result[w].outcome.expression.text =
            "SET versionNumber = versionNumber + :versionInc,#versionInc = :versionInc"
        /\ result[w].outcome.expression.valueAliases[":versionInc"] = "null"

----------------------------------------------------------------------------
\* Versions.

\* A step that writes an item under id (a delete leaves none).
Written(id) == store'[id] # store[id] /\ store'[id] # NoItem

\* The request in flight is a put of id without the version condition.
UncheckedPutOf(w, id) ==
    /\ pc[w] = "sent"
    /\ req[w].op = "put"
    /\ ~Has(req[w].input, "ConditionExpression")
    /\ KeyOf(req[w].input.Item) = id

ItemsBefore(w, r) ==
    IF Has(r.req, "item") THEN <<r.req.item>>
    ELSE IF Has(r.req, "items") THEN r.req.items
    ELSE items[w]

\* C25: when putItem or transactPut fails for any reason (version conflict,
\* transform failure, item-count validation, other store error), every item whose
\* write was not committed has the in-memory versionNumber it had before the
\* call; the in-memory version advances only for items that were written.
C25_FailedWriteKeepsVersion ==
    [][\A w \in Writers :
        (result'[w] # result[w] /\ result'[w].req.call \in {"putItem", "transactPut"}) =>
            LET before == ItemsBefore(w, result'[w])
            IN  /\ Len(items'[w]) = Len(before)
                /\ \A i \in DOMAIN before :
                    CurrentVersion(items'[w][i]) =
                        IF IsError(result'[w].outcome) THEN CurrentVersion(before[i])
                        ELSE CurrentVersion(before[i]) + 1]_vars

\* A putItem rejected with VersionMismatchError, nothing written: the caller's
\* object holds version 2, it held 1 before the call.
C25_VersionAdvancedByFailedPut ==
    \E w \in Writers :
        /\ result[w].req.op = "put"
        /\ result[w].outcome = VersionMismatchError
        /\ result[w].resp.pre = result[w].resp.post
        /\ store = result[w].resp.post
        /\ CurrentVersion(result[w].req.item) = 1
        /\ Len(items[w]) = 1
        /\ ObjectAssign(result[w].req.item, [versionNumber |-> 2, pk |-> "a"]) = items[w][1]

\* The last call of w was a putItem rejected with VersionMismatchError, the
\* stored items are what that request left and w holds the object it passed.
MismatchStands(w) ==
    /\ pc[w] = "idle"
    /\ result[w].req.op = "put"
    /\ Has(result[w].req.input, "ConditionExpression")
    /\ result[w].outcome = VersionMismatchError
    /\ store = result[w].resp.post
    /\ items[w] = <<AssignKeyAndVersion(result[w].req.item, entityConfig)>>

\* C26: after a putItem failed with VersionMismatchError because a racing writer
\* advanced the stored version, putItem called again with the same in-memory
\* item, not re-read and with the stored item unchanged in between, fails again:
\* the store rejects the condition of the second request.
C26_BlindRetryRejected ==
    [][\A w \in Writers :
        (MismatchStands(w) /\ pc'[w] = "sent" /\ req'[w].op = "put"
            /\ ~req'[w].options.skipVersionCheck) =>
                ~PutConditionHolds(store[KeyOf(req'[w].input.Item)], req'[w].input)]_vars

\* A new object for a key stored at version 1 was rejected and now holds version
\* 1 itself: the condition of its next putItem holds against the stored item,
\* whose status is another.
C26_RetryWouldOverwrite ==
    \E w \in Writers :
        /\ MismatchStands(w)
        /\ CurrentVersion(result[w].req.item) = 0
        /\ VersionOf(store[items[w][1].id]) = 1
        /\ store[items[w][1].id].status # items[w][1].status
        /\ PutConditionHolds(store[items[w][1].id],
                             buildPutItemInput(items[w][1], FALSE, entityConfig))

----------------------------------------------------------------------------
\* Updates of a sensitive field.

\* updateItem of w returns an entity in this step, after setting the sensitive
\* field secret of a stored item that held it encrypted.
SecretUpdateReturns(w) ==
    /\ pc[w] = "answered"
    /\ req[w].op = "update"
    /\ pc'[w] = "idle"
    /\ result'[w].outcome = Ok
    /\ entityConfig.encryptedFields = <<"secret">>
    /\ Has(req[w].given, "secret")
    /\ Has(resp[w].pre[KeyOf(req[w].Key)], EncryptedKey("secret"))

\* C27: for a sensitive field whose stored item holds it encrypted, after
\* updateItem sets it to a new value v (falsy values included) the entity
\* updateItem returns, and the entity a following getItem builds from the stored
\* item, hold v in the field and not the value stored before.
C27_UpdatedSecretReturned ==
    [][\A w \in Writers :
        SecretUpdateReturns(w) =>
            LET read == decryptItem(NewEntity(store'[KeyOf(req[w].Key)]),
                                    entityConfig.encryptedFields)
            IN  /\ Has(items'[w][1], "secret")
                /\ items'[w][1].secret = req[w].given.secret
                /\ Has(read, "secret")
                /\ read.secret = req[w].given.secret]_vars

\* The secret 's' was stored encrypted and updateItem set it to the empty string:
\* the stored item holds both, and the entity returned holds 's'.
C27_OldSecretReturned ==
    \E w \in Writers :
        /\ result[w].req.op = "update"
        /\ result[w].outcome = Ok
        /\ result[w].req.given = [secret |-> ""]
        /\ Has(result[w].resp.pre["a"], EncryptedKey("secret"))
        /\ result[w].resp.pre["a"][EncryptedKey("secret")] = Encrypt(Stringify("s"))
        /\ store = result[w].resp.post
        /\ Has(store["a"], "secret")
        /\ store["a"].secret = ""
        /\ Has(store["a"], EncryptedKey("secret"))
        /\ Len(items[w]) = 1
        /\ Has(items[w][1], "secret")
        /\ items[w][1].secret = "s"
        /\ items[w][1].versionNumber = store["a"].versionNumber

====
